---- MODULE Spec2Model ----
(***************************************************************************)
(* Vehicle locomotion and collision response of the game (Vehicle and      *)
(* CollisionPhysics), as a state machine.                                  *)
(*                                                                         *)
(* Numbers.  The program computes in IEEE doubles.  Here a number is a     *)
(* fixed-point integer n standing for n / FxOne, and every arithmetic      *)
(* operation rounds its exact result to that grid, as a double operation   *)
(* rounds to the doubles.  Products are formed limb by limb so that no     *)
(* intermediate value leaves the 32-bit integers of the model checker.     *)
(***************************************************************************)
EXTENDS Integers, Sequences, FiniteSets, TLC

(***************************************************************************)
(* Fixed-point arithmetic                                                  *)
(***************************************************************************)
Limb == 10 * 10 * 10
FxOne == Limb * Limb

\* The number n/d for small n, truncated to the grid (decimal literals of the
\* source).
Dec(n, d) == (n * FxOne) \div d

Abs(a) == IF a < 0 THEN -a ELSE a
Sgn(a) == IF a > 0 THEN 1 ELSE IF a < 0 THEN -1 ELSE 0
Max(a, b) == IF a >= b THEN a ELSE b
Min(a, b) == IF a <= b THEN a ELSE b

MulAbs(a, b) ==
    LET a1 == a \div Limb
        a0 == a % Limb
        b1 == b \div Limb
        b0 == b % Limb
        p10 == a1 * b0
        p01 == a0 * b1
        low == ((p10 % Limb) + (p01 % Limb)) * Limb + a0 * b0
    IN  a1 * b1 + (p10 \div Limb) + (p01 \div Limb)
          + ((low + FxOne \div 2) \div FxOne)

\* a * b, rounded to nearest.
Mul(a, b) == Sgn(a) * Sgn(b) * MulAbs(Abs(a), Abs(b))

RECURSIVE DivDigits(_, _, _, _)
DivDigits(r, b, n, acc) ==
    IF n = 0 THEN acc
    ELSE DivDigits((r * 10) % b, b, n - 1, acc * 10 + ((r * 10) \div b))

\* Divisors above this are scaled down with the dividend (long division
\* multiplies remainders by ten).
DivMaxB == 200 * FxOne

RECURSIVE DivAbs(_, _)
DivAbs(a, b) ==
    IF b > DivMaxB THEN DivAbs(a \div 10, b \div 10)
    ELSE (a \div b) * FxOne + ((DivDigits(a % b, b, 7, 0) + 5) \div 10)

\* a / b for b # 0, rounded to nearest.
Div(a, b) == Sgn(a) * Sgn(b) * DivAbs(Abs(a), Abs(b))

\* a / n for an integer n > 0, rounded to nearest.
DivInt(a, n) == Sgn(a) * ((Abs(a) + n \div 2) \div n)

RECURSIVE DivFloorAbs(_, _)
DivFloorAbs(a, b) ==
    IF b > DivMaxB THEN DivFloorAbs(a \div 10, b \div 10)
    ELSE (a \div b) * FxOne + DivDigits(a % b, b, 6, 0)

RECURSIVE ISqrtIter(_, _)
ISqrtIter(n, x) ==
    LET y == (x + n \div x) \div 2
    IN  IF y >= x THEN x ELSE ISqrtIter(n, y)

ISqrt(n) == IF n <= 0 THEN 0 ELSE ISqrtIter(n, n)

RECURSIVE SqrtIter(_, _)
SqrtIter(a, x) ==
    LET y == (x + DivFloorAbs(a, x)) \div 2
    IN  IF y >= x THEN x ELSE SqrtIter(a, y)

\* Math.sqrt: the largest grid number whose square is at most a.
Sqrt(a) == IF a <= 0 THEN 0 ELSE SqrtIter(a, Limb * (ISqrt(a) + 1))

(***************************************************************************)
(* Vector3                                                                 *)
(***************************************************************************)
V3(x, y, z) == [x |-> x, y |-> y, z |-> z]
VZero == V3(0, 0, 0)
VAdd(a, b) == V3(a.x + b.x, a.y + b.y, a.z + b.z)
VSubtract(a, b) == V3(a.x - b.x, a.y - b.y, a.z - b.z)
VScale(a, s) == V3(Mul(a.x, s), Mul(a.y, s), Mul(a.z, s))
VDot(a, b) == Mul(a.x, b.x) + Mul(a.y, b.y) + Mul(a.z, b.z)
VCross(a, b) ==
    V3(Mul(a.y, b.z) - Mul(a.z, b.y),
       Mul(a.z, b.x) - Mul(a.x, b.z),
       Mul(a.x, b.y) - Mul(a.y, b.x))

\* Components above this are scaled down before squaring, as a double
\* keeps its relative precision whatever the exponent.
LenDirectMax == 26 * FxOne

RECURSIVE VLength(_)
VLength(a) ==
    IF Max(Abs(a.x), Max(Abs(a.y), Abs(a.z))) > LenDirectMax
    THEN 10 * VLength(V3(DivInt(a.x, 10), DivInt(a.y, 10), DivInt(a.z, 10)))
    ELSE Sqrt(Mul(a.x, a.x) + Mul(a.y, a.y) + Mul(a.z, a.z))

\* Vector3.normalize: a vector of length 0 or 1 is returned as it is, any
\* other is scaled by the reciprocal of its length.
VNormalize(a) ==
    LET len == VLength(a)
    IN  IF len = 0 \/ len = FxOne THEN a ELSE VScale(a, Div(FxOne, len))

VDistance(a, b) == VLength(VSubtract(a, b))

(***************************************************************************)
(* Math.sin, Math.cos, Math.asin, Math.pow                                 *)
(***************************************************************************)
Pi == 3 * FxOne + 141593
HalfPi == FxOne + 570796
TwoPi == 6 * FxOne + 283185
Ln2 == FxOne - 306853

\* x brought into [-Pi, Pi).
ReduceAngle(x) == ((x + Pi) % TwoPi) - Pi

SinSeries(r) ==
    LET r2 == Mul(r, r)
        p5 == FxOne - DivInt(r2, 110)
        p4 == FxOne - DivInt(Mul(r2, p5), 72)
        p3 == FxOne - DivInt(Mul(r2, p4), 42)
        p2 == FxOne - DivInt(Mul(r2, p3), 20)
        p1 == FxOne - DivInt(Mul(r2, p2), 6)
    IN  Mul(r, p1)

CosSeries(r) ==
    LET r2 == Mul(r, r)
        p6 == FxOne - DivInt(r2, 132)
        p5 == FxOne - DivInt(Mul(r2, p6), 90)
        p4 == FxOne - DivInt(Mul(r2, p5), 56)
        p3 == FxOne - DivInt(Mul(r2, p4), 30)
        p2 == FxOne - DivInt(Mul(r2, p3), 12)
    IN  FxOne - DivInt(Mul(r2, p2), 2)

Sin(x) ==
    LET r == ReduceAngle(x)
    IN  IF r > HalfPi THEN SinSeries(Pi - r)
        ELSE IF r < -HalfPi THEN SinSeries(-Pi - r)
        ELSE SinSeries(r)

Cos(x) ==
    LET r == ReduceAngle(x)
    IN  IF r > HalfPi THEN -CosSeries(Pi - r)
        ELSE IF r < -HalfPi THEN -CosSeries(-Pi - r)
        ELSE CosSeries(r)

RECURSIVE AsinIter(_, _, _, _)
AsinIter(x, lo, hi, n) ==
    LET mid == (lo + hi) \div 2
    IN  IF n = 0 \/ hi - lo <= 1 THEN mid
        ELSE IF SinSeries(mid) < x THEN AsinIter(x, mid, hi, n - 1)
        ELSE AsinIter(x, lo, mid, n - 1)

\* Math.asin on [0, 1].
Asin(x) ==
    IF x <= 0 THEN 0
    ELSE IF x >= FxOne THEN HalfPi
    ELSE AsinIter(x, 0, HalfPi, 24)

LnSeries(b) ==
    LET u == Div(b - FxOne, b + FxOne)
        u2 == Mul(u, u)
        h6 == DivInt(FxOne, 13)
        h5 == DivInt(FxOne, 11) + Mul(u2, h6)
        h4 == DivInt(FxOne, 9) + Mul(u2, h5)
        h3 == DivInt(FxOne, 7) + Mul(u2, h4)
        h2 == DivInt(FxOne, 5) + Mul(u2, h3)
        h1 == DivInt(FxOne, 3) + Mul(u2, h2)
        h0 == FxOne + Mul(u2, h1)
    IN  2 * Mul(u, h0)

RECURSIVE Ln(_)
Ln(b) ==
    IF b >= 2 * FxOne THEN Ln2 + Ln(DivInt(b, 2))
    ELSE IF 2 * b < FxOne THEN Ln(2 * b) - Ln2
    ELSE LnSeries(b)

ExpSeries(r) ==
    LET e8 == FxOne + DivInt(r, 9)
        e7 == FxOne + DivInt(Mul(r, e8), 8)
        e6 == FxOne + DivInt(Mul(r, e7), 7)
        e5 == FxOne + DivInt(Mul(r, e6), 6)
        e4 == FxOne + DivInt(Mul(r, e5), 5)
        e3 == FxOne + DivInt(Mul(r, e4), 4)
        e2 == FxOne + DivInt(Mul(r, e3), 3)
        e1 == FxOne + DivInt(Mul(r, e2), 2)
    IN  FxOne + Mul(r, e1)

RECURSIVE Pow2(_)
Pow2(k) == IF k = 0 THEN 1 ELSE 2 * Pow2(k - 1)

Exp(y) ==
    LET k == (2 * y + Ln2) \div (2 * Ln2)
        e == ExpSeries(y - k * Ln2)
    IN  IF k >= 0 THEN e * Pow2(k) ELSE DivInt(e, Pow2(-k))

\* Math.pow(base, exponent) for base >= 0.
Pow(base, exponent) ==
    IF exponent = 0 \/ base = FxOne THEN FxOne
    ELSE IF exponent = FxOne THEN base
    ELSE IF base = 0 THEN 0
    ELSE Exp(Mul(exponent, Ln(base)))

(***************************************************************************)
(* Quaternion                                                              *)
(***************************************************************************)
Q(x, y, z, w) == [x |-> x, y |-> y, z |-> z, w |-> w]
QIdentity == Q(0, 0, 0, FxOne)

\* a.multiply(b): the Hamilton product a b (b is applied first).
QMultiply(a, b) ==
    Q(Mul(a.x, b.w) + Mul(a.y, b.z) - Mul(a.z, b.y) + Mul(a.w, b.x),
      Mul(a.y, b.w) + Mul(a.z, b.x) + Mul(a.w, b.y) - Mul(a.x, b.z),
      Mul(a.x, b.y) - Mul(a.y, b.x) + Mul(a.z, b.w) + Mul(a.w, b.z),
      Mul(a.w, b.w) - Mul(a.x, b.x) - Mul(a.y, b.y) - Mul(a.z, b.z))

QRotationAxisWholeAngle(axis, angle) ==
    LET half == DivInt(angle, 2)
        s == Sin(angle)
        n == VNormalize(axis)
    IN  Q(Mul(n.x, s), Mul(n.y, s), Mul(n.z, s), Cos(half))

\* Quaternion.RotationAxis(axis, angle): the axis is normalized first.
QRotationAxis(axis, angle) ==
    LET half == DivInt(angle, 2)
        s == Sin(half)
        n == VNormalize(axis)
    IN  Q(Mul(n.x, s), Mul(n.y, s), Mul(n.z, s), Cos(half))

\* v.rotateByQuaternionToRef(q, result): v + w t + q x t with t = 2 q x v.
RotateByQuaternion(v, q) ==
    LET qv == V3(q.x, q.y, q.z)
        c == VCross(qv, v)
        t == V3(2 * c.x, 2 * c.y, 2 * c.z)
        wt == VScale(t, q.w)
    IN  VAdd(VAdd(v, wt), VCross(qv, t))

QLength(q) == Sqrt(Mul(q.x, q.x) + Mul(q.y, q.y) + Mul(q.z, q.z) + Mul(q.w, q.w))

(***************************************************************************)
(* CollisionPhysics                                                        *)
(***************************************************************************)
\* new CollisionPhysics(): the defaults of the constructor.
DefaultCollisionConfig ==
    [restitution |-> Dec(3, 10),
     staticObjectDamping |-> Dec(4, 10),
     momentumFriction |-> Dec(4, 10),
     momentumThreshold |-> Dec(5, 100)]

applyMomentumFrictionNoClamp(cp, momentum, deltaTime) ==
    LET dragFactor == FxOne - Mul(cp.momentumFriction, deltaTime)
        newMomentum == VScale(momentum, dragFactor)
    IN  IF VLength(newMomentum) < cp.momentumThreshold
        THEN VZero
        ELSE newMomentum

applyMomentumFrictionNoSnap(cp, momentum, deltaTime) ==
    LET dragFactor == FxOne - Mul(cp.momentumFriction, deltaTime)
    IN  VScale(momentum, Max(0, dragFactor))

applyMomentumFrictionSignError(cp, momentum, deltaTime) ==
    LET dragFactor == FxOne + Mul(cp.momentumFriction, deltaTime)
        newMomentum == VScale(momentum, Max(0, dragFactor))
    IN  IF VLength(newMomentum) < cp.momentumThreshold
        THEN VZero
        ELSE newMomentum

applyMomentumFrictionSnapInput(cp, momentum, deltaTime) ==
    LET dragFactor == FxOne - Mul(cp.momentumFriction, deltaTime)
        newMomentum == VScale(momentum, Max(0, dragFactor))
    IN  IF VLength(momentum) < cp.momentumThreshold
        THEN VZero
        ELSE newMomentum

applyMomentumFriction(cp, momentum, deltaTime) ==
    LET dragFactor == FxOne - Mul(cp.momentumFriction, deltaTime)
        newMomentum == VScale(momentum, Max(0, dragFactor))
    IN  IF VLength(newMomentum) < cp.momentumThreshold
        THEN VZero
        ELSE newMomentum

velocityToMomentumUnscaled(velocity, mass) == velocity

velocityToMomentum(velocity, mass) == VScale(velocity, mass)

momentumToVelocityNoGuard(momentum, mass) ==
    IF mass = 0 THEN momentum ELSE VScale(momentum, Div(FxOne, mass))

momentumToVelocity(momentum, mass) ==
    IF mass = 0 THEN VZero ELSE VScale(momentum, Div(FxOne, mass))

isMomentumNegligibleInclusive(cp, momentum) ==
    VLength(momentum) <= cp.momentumThreshold

isMomentumNegligible(cp, momentum) ==
    VLength(momentum) < cp.momentumThreshold

\* A PhysicsBody.
Body(velocity, mass, position) ==
    [velocity |-> velocity, mass |-> mass, position |-> position]

calculateStaticCollisionUndamped(cp, body, collisionNormal) ==
    LET v == body.velocity
        currentMomentum == VScale(v, body.mass)
        velocityAlongNormal == VDot(v, collisionNormal)
    IN  VSubtract(currentMomentum,
                  VScale(collisionNormal,
                         Mul(2 * velocityAlongNormal, body.mass)))

calculateStaticCollision(cp, body, collisionNormal) ==
    LET v == body.velocity
        currentMomentum == VScale(v, body.mass)
        velocityAlongNormal == VDot(v, collisionNormal)
        reflectedMomentum ==
            VSubtract(currentMomentum,
                      VScale(collisionNormal,
                             Mul(2 * velocityAlongNormal, body.mass)))
    IN  VScale(reflectedMomentum, cp.staticObjectDamping)

calculateDynamicCollisionSameSign(cp, body1, body2, collisionNormal) ==
    LET v1 == body1.velocity
        v2 == body2.velocity
        m1 == body1.mass
        m2 == body2.mass
        velocityAlongNormal == VDot(VSubtract(v1, v2), collisionNormal)
        e == cp.restitution
        j == Div(Mul(-(FxOne + e), velocityAlongNormal),
                 Div(FxOne, m1) + Div(FxOne, m2))
        impulse == VScale(collisionNormal, j)
    IN  [body1NewVelocity |-> VAdd(v1, VScale(impulse, Div(FxOne, m1))),
         body2NewVelocity |-> VAdd(v2, VScale(impulse, Div(FxOne, m2))),
         impulse |-> impulse,
         shouldSeparate |-> velocityAlongNormal > 0]

calculateDynamicCollisionInclusive(cp, body1, body2, collisionNormal) ==
    LET v1 == body1.velocity
        v2 == body2.velocity
        m1 == body1.mass
        m2 == body2.mass
        velocityAlongNormal == VDot(VSubtract(v1, v2), collisionNormal)
        e == cp.restitution
        j == Div(Mul(-(FxOne + e), velocityAlongNormal),
                 Div(FxOne, m1) + Div(FxOne, m2))
        impulse == VScale(collisionNormal, j)
    IN  [body1NewVelocity |-> VAdd(v1, VScale(impulse, Div(FxOne, m1))),
         body2NewVelocity |-> VAdd(v2, VScale(impulse, Div(-FxOne, m2))),
         impulse |-> impulse,
         shouldSeparate |-> velocityAlongNormal >= 0]

calculateDynamicCollisionEqualShare(cp, body1, body2, collisionNormal) ==
    LET v1 == body1.velocity
        v2 == body2.velocity
        m1 == body1.mass
        m2 == body2.mass
        velocityAlongNormal == VDot(VSubtract(v1, v2), collisionNormal)
        e == cp.restitution
        j == Div(Mul(-(FxOne + e), velocityAlongNormal),
                 Div(FxOne, m1) + Div(FxOne, m2))
        impulse == VScale(collisionNormal, j)
    IN  [body1NewVelocity |-> VAdd(v1, VScale(impulse, Div(FxOne, m1))),
         body2NewVelocity |-> VAdd(v2, VScale(impulse, Div(-FxOne, m1))),
         impulse |-> impulse,
         shouldSeparate |-> velocityAlongNormal > 0]

calculateDynamicCollisionGuarded(cp, body1, body2, collisionNormal) ==
    LET v1 == body1.velocity
        v2 == body2.velocity
        m1 == body1.mass
        m2 == body2.mass
        velocityAlongNormal == VDot(VSubtract(v1, v2), collisionNormal)
        e == cp.restitution
        j == Div(Mul(-(FxOne + e), velocityAlongNormal),
                 Div(FxOne, m1) + Div(FxOne, m2))
        impulse == VScale(collisionNormal, j)
    IN  IF velocityAlongNormal > 0
        THEN [body1NewVelocity |-> VAdd(v1, VScale(impulse, Div(FxOne, m1))),
              body2NewVelocity |-> VAdd(v2, VScale(impulse, Div(-FxOne, m2))),
              impulse |-> impulse,
              shouldSeparate |-> TRUE]
        ELSE [body1NewVelocity |-> v1,
              body2NewVelocity |-> v2,
              impulse |-> VZero,
              shouldSeparate |-> FALSE]

calculateDynamicCollision(cp, body1, body2, collisionNormal) ==
    LET v1 == body1.velocity
        v2 == body2.velocity
        m1 == body1.mass
        m2 == body2.mass
        relativeVelocity == VSubtract(v1, v2)
        velocityAlongNormal == VDot(relativeVelocity, collisionNormal)
        isApproaching == velocityAlongNormal > 0
        e == cp.restitution
        j == Div(Mul(-(FxOne + e), velocityAlongNormal),
                 Div(FxOne, m1) + Div(FxOne, m2))
        impulse == VScale(collisionNormal, j)
    IN  [body1NewVelocity |-> VAdd(v1, VScale(impulse, Div(FxOne, m1))),
         body2NewVelocity |-> VAdd(v2, VScale(impulse, Div(-FxOne, m2))),
         impulse |-> impulse,
         shouldSeparate |-> isApproaching]

calculateSeparationSwapped(mass1, mass2, separationDistance, isInterpenetrating) ==
    LET separationMultiplier == IF isInterpenetrating THEN 2 * FxOne ELSE FxOne
        totalMass == mass1 + mass2
    IN  [body1Separation |->
             Mul(Mul(Div(mass1, totalMass), separationDistance),
                 separationMultiplier),
         body2Separation |->
             Mul(Mul(Div(mass2, totalMass), separationDistance),
                 separationMultiplier)]

calculateSeparation(mass1, mass2, separationDistance, isInterpenetrating) ==
    LET separationMultiplier == IF isInterpenetrating THEN 2 * FxOne ELSE FxOne
        totalMass == mass1 + mass2
    IN  [body1Separation |->
             Mul(Mul(Div(mass2, totalMass), separationDistance),
                 separationMultiplier),
         body2Separation |->
             Mul(Mul(Div(mass1, totalMass), separationDistance),
                 separationMultiplier)]

(***************************************************************************)
(* InputManager                                                            *)
(***************************************************************************)
\* event.code.toLowerCase() for the key codes of the model.
toLowerCase(code) ==
    CASE code = "KeyW" -> "keyw"
      [] code = "KeyS" -> "keys"
      [] code = "KeyA" -> "keya"
      [] code = "KeyD" -> "keyd"
      [] code = "ArrowUp" -> "arrowup"
      [] code = "ArrowDown" -> "arrowdown"
      [] code = "ArrowLeft" -> "arrowleft"
      [] code = "ArrowRight" -> "arrowright"
      [] code = "Space" -> "space"

KeyCodes == {"KeyW", "KeyS", "KeyA", "KeyD", "ArrowUp", "ArrowDown",
             "ArrowLeft", "ArrowRight", "Space"}

\* this.keys = {}: no property is set, and a missing property is falsy as
\* false is.
NoKeys == [c \in {toLowerCase(code) : code \in KeyCodes} |-> FALSE]

\* The target of the event is one the user types in.
typing(target) ==
    \/ target.tagName = "INPUT"
    \/ target.tagName = "TEXTAREA"
    \/ target.isContentEditable

keydownUnfiltered(k, event) ==
    [k EXCEPT ![toLowerCase(event.code)] = TRUE]

\* The keydown listener: the keys after the event.
keydown(k, event) ==
    IF typing(event.target)
    THEN k
    ELSE [k EXCEPT ![toLowerCase(event.code)] = TRUE]

\* The keyup listener.
keyup(k, event) ==
    [k EXCEPT ![toLowerCase(event.code)] = FALSE]

getInputForwardWins(k) ==
    [accelerate |-> IF k["keyw"] \/ k["arrowup"] THEN FxOne
                    ELSE IF k["keys"] \/ k["arrowdown"] THEN -FxOne
                    ELSE 0,
     steer |-> IF k["keyd"] \/ k["arrowright"] THEN -FxOne
               ELSE IF k["keya"] \/ k["arrowleft"] THEN FxOne
               ELSE 0,
     handbrake |-> k["space"]]

\* getInput(): the later assignment wins.
getInput(k) ==
    LET accelerate1 == IF k["keyw"] \/ k["arrowup"] THEN FxOne ELSE 0
        accelerate2 == IF k["keys"] \/ k["arrowdown"] THEN -FxOne
                       ELSE accelerate1
        steer1 == IF k["keya"] \/ k["arrowleft"] THEN FxOne ELSE 0
        steer2 == IF k["keyd"] \/ k["arrowright"] THEN -FxOne ELSE steer1
        handbrake == IF k["space"] THEN TRUE ELSE FALSE
    IN  [accelerate |-> accelerate2, steer |-> steer2, handbrake |-> handbrake]

(***************************************************************************)
(* Model generator page: status polling                                    *)
(***************************************************************************)
MAX_POLLS == 200

\* The page after its script is loaded, before init(): the state object's
\* initial fields, an empty localStorage entry (request_id, last_status),
\* the generate button (enabled once an image is chosen), the error the
\* last handler showed (if any), the pending timeouts, and the requests in
\* flight (posts: submissions, polls: status requests, results: result
\* requests).
\* pollTimer is "null", or the handle of a timeout that is "pending" or
\* has "fired".  runSent and sentBefore are history: the status requests
\* sent for the request of requestId since pollCount was last reset, and
\* whether any was sent for it before that (1) or not (0).
PageLoaded ==
    [requestId |-> "", pollCount |-> 0, pollTimer |-> "null",
     request_id |-> "", last_status |-> "",
     button |-> FALSE, error |-> "",
     timers |-> 0, posts |-> 0, polls |-> 0, results |-> 0,
     runSent |-> 0, sentBefore |-> 0]

showError(p, msg) == [p EXCEPT !.error = msg]

\* btn.disabled = active || !state.imageB64, with an image chosen.
setGenerating(p, active) == [p EXCEPT !.button = ~active]

\* clearTimeout(state.pollTimer): cancels the timeout if it is pending.
clearTimeout(p) ==
    IF p.pollTimer = "pending" THEN [p EXCEPT !.timers = @ - 1] ELSE p

clearRequestId(p) ==
    LET cleared == [p EXCEPT !.requestId = "", !.request_id = ""]
    IN  IF cleared.pollTimer # "null"
        THEN [clearTimeout(cleared) EXCEPT !.pollTimer = "null"]
        ELSE cleared

schedulePoll(p) ==
    LET stopped == IF p.pollTimer # "null" THEN clearTimeout(p) ELSE p
    IN  [stopped EXCEPT !.timers = @ + 1, !.pollTimer = "pending"]

\* fetch(url of the status of state.requestId): one more status request.
sendStatusRequest(p) ==
    [p EXCEPT !.polls = @ + 1, !.runSent = @ + 1]

pollStatusTestFirst(p) ==
    IF p.requestId = ""
    THEN setGenerating(showError(p, "No active request"), FALSE)
    ELSE IF p.pollCount > MAX_POLLS
         THEN setGenerating(
                  clearRequestId(showError([p EXCEPT !.pollCount = @ + 1],
                                           "Generation timeout")), FALSE)
         ELSE sendStatusRequest([p EXCEPT !.pollCount = @ + 1])

\* pollStatus(), up to the fetch call.
pollStatus(p) ==
    IF p.requestId = ""
    THEN setGenerating(showError(p, "No active request"), FALSE)
    ELSE LET counted == [p EXCEPT !.pollCount = @ + 1]
         IN  IF counted.pollCount > MAX_POLLS
             THEN setGenerating(
                      clearRequestId(showError(counted, "Generation timeout")),
                      FALSE)
             ELSE sendStatusRequest(counted)

startPolling(p) == pollStatus(p)

\* fetchResult(), up to the fetch call.
fetchResult(p) ==
    IF p.requestId = ""
    THEN setGenerating(showError(p, "No active request"), FALSE)
    ELSE [p EXCEPT !.results = @ + 1]

\* What a status response can carry in data.status; "other" is any value
\* the handler does not name, "error" a rejected fetch or a body that is
\* not JSON.
Statuses == {"IN_QUEUE", "IN_PROGRESS", "COMPLETED", "FAILED", "other",
             "error"}

\* The handlers of the status request's promise.
statusResponse(p, status) ==
    CASE status \in {"IN_QUEUE", "IN_PROGRESS"} -> schedulePoll(p)
      [] status = "COMPLETED" ->
             fetchResult([p EXCEPT !.last_status = "completed"])
      [] status = "FAILED" ->
             setGenerating(
                 clearRequestId([showError(p, "Generation failed")
                                     EXCEPT !.last_status = "failed"]),
                 FALSE)
      [] status = "other" -> schedulePoll(p)
      [] status = "error" -> setGenerating(showError(p, "Poll error"), FALSE)

\* The handlers of the submission's promise: data.request_id is set
\* (accepted), or it is not, or the fetch is rejected.
submitResponse(p, reply) ==
    CASE reply = "accepted" ->
             startPolling([p EXCEPT !.requestId = "req",
                                    !.request_id = "req",
                                    !.last_status = "pending",
                                    !.pollCount = 0,
                                    !.runSent = 0, !.sentBefore = 0])
      [] reply = "rejected" ->
             setGenerating(showError(p, "Failed to start generation"), FALSE)
      [] reply = "error" ->
             setGenerating(showError(p, "Network error"), FALSE)

SubmitReplies == {"accepted", "rejected", "error"}

\* The handlers of the result request's promise: the result has a model
\* URL, or it has none, or the fetch is rejected.
resultResponse(p, reply) ==
    CASE reply = "model" -> setGenerating(clearRequestId(p), FALSE)
      [] reply = "empty" ->
             setGenerating(showError(p, "No model URL in response"), FALSE)
      [] reply = "error" ->
             setGenerating(showError(p, "Result fetch error"), FALSE)

ResultReplies == {"model", "empty", "error"}

\* restoreInFlightRequest(): the polling part.
restoreInFlightRequest(p) ==
    IF p.requestId # "" /\ p.last_status = "pending"
    THEN startPolling([setGenerating(p, TRUE) EXCEPT !.pollCount = 0,
                                                     !.runSent = 0])
    ELSE p

\* init() in a page that is loaded again: a new state object, filled from
\* localStorage by loadStateFromStorage(); the timeouts and requests of the
\* page before are gone.
init(p) ==
    restoreInFlightRequest(
        [PageLoaded EXCEPT !.requestId = p.request_id,
                           !.request_id = p.request_id,
                           !.last_status = p.last_status,
                           !.sentBefore =
                               IF p.request_id # ""
                                  /\ p.sentBefore + p.runSent > 0
                               THEN 1 ELSE 0])

(***************************************************************************)
(* VehicleConfigLoader                                                     *)
(***************************************************************************)
\* The vehicle ids and base paths of the calls; "/vehicles/" is the default
\* base path.  Two of the pairs name the same file.
VehicleIds == {"main_car", "car"}
BasePaths == {"/vehicles/", "/vehicles/main_"}

\* `${basePath}${vehicleId}.json`: the cache key, and the URL fetched.
cacheKey(vehicleId, basePath) == basePath \o vehicleId \o ".json"

CacheKeys == {cacheKey(id, path) : id \in VehicleIds, path \in BasePaths}

\* The documents the server can hold at a URL: the file can be replaced
\* between two requests.  A config is the parsed document.
Documents == {"config1", "config2"}

\* What a fetch can come to: response.ok with a document, a response that
\* is not ok, a rejected fetch, a body that response.json() rejects.
FetchFailures == {"notOk", "networkError", "invalidJson"}
FetchOutcomes == Documents \cup FetchFailures

\* No call is awaiting its fetch.
NoCall == [vehicleId |-> "", basePath |-> ""]

\* configCache = new Map(): no key is set ("none").  pending is the call
\* whose fetch is awaited.  loaded is history: the config the first
\* successful load of each URL returned.
LoaderEmpty ==
    [configCache |-> [k \in CacheKeys |-> "none"],
     pending |-> NoCall,
     loaded |-> [k \in CacheKeys |-> "none"]]

\* The call returns the cached config.
cacheHit(l, vehicleId, basePath) ==
    l.configCache[cacheKey(vehicleId, basePath)] # "none"

\* The try block after the fetch: the cache after it.
cacheAfterFetchAlways(l, outcome) ==
    [l.configCache EXCEPT ![cacheKey(l.pending.vehicleId,
                                     l.pending.basePath)] = outcome]

cacheAfterFetch(l, outcome) ==
    IF outcome \in Documents
    THEN [l.configCache EXCEPT ![cacheKey(l.pending.vehicleId,
                                          l.pending.basePath)] = outcome]
    ELSE l.configCache

(***************************************************************************)
(* State                                                                   *)
(***************************************************************************)
VARIABLES
    \* Vehicle: surface geometry and physics properties (set by the
    \* constructor and create()).
    surfaceType, planetRadius, planetCenter, groundHeight, heightOffset,
    mass, maxSpeed, acceleration, friction, maxSteerAngle,
    \* The CollisionPhysics instance (its four configuration fields).
    collisionPhysics,
    \* Whether create() was given an existing mesh.
    existingMesh,
    \* Vehicle: kinematic state.
    position, speed, velocity, momentum, steerAngle,
    inputAccelerate, inputSteer, inputHandbrake,
    \* The scene node: [position, rotationQuaternion].
    rootNode,
    \* The last operation called, its argument and the state it was called in.
    last,
    \* Calls made so far: update() and the collision orchestrator's calls.
    steps,
    \* The last call of a method of a CollisionPhysics instance of its own
    \* (as the unit tests make them): the instance, the arguments, the result.
    calc,
    \* InputManager: the keys held, by lower-case key code.
    keys,
    \* The model generator page: its state object, its stored generation,
    \* its pending timers and the requests it has in flight.
    page,
    \* VehicleConfigLoader: configCache and the loads in progress.
    loader

configVars == <<surfaceType, planetRadius, planetCenter, groundHeight,
                heightOffset, mass, maxSpeed, acceleration, friction,
                maxSteerAngle, collisionPhysics, existingMesh>>
inputVars == <<inputAccelerate, inputSteer, inputHandbrake>>
motionVars == <<position, speed, velocity, momentum, steerAngle, rootNode>>
vars == <<configVars, inputVars, motionVars, last, steps, calc, keys, page,
         loader>>

(***************************************************************************)
(* Bounds and inputs of the model                                          *)
(***************************************************************************)
\* Calls of update() and of the collision orchestrator in one run.
MaxSteps == 2
\* Applications of applyMomentumFriction in one loop.
MaxRepeat == 16
\* Further frames of a long drive.
MaxFrames == 8

\* Frame times handed to update(): a zero frame, a short and a long one.
DeltaTimes == {0, Dec(1, 4), FxOne}
\* Inputs <<accelerate, steer, handbrake>>: forward, forward and left,
\* reverse and right, handbrake, released.
DrivingInputs == {<<FxOne, 0, FALSE>>, <<FxOne, FxOne, FALSE>>,
                  <<-FxOne, -FxOne, FALSE>>, <<0, 0, TRUE>>}
Inputs == DrivingInputs \cup {<<0, 0, FALSE>>, <<FxOne, FxOne, TRUE>>}
\* Impulses of the collision detector (the second has a vertical part, the
\* third is too small to move a vehicle of mass 1000).
Impulses == {V3(400 * FxOne, 0, 0), V3(0, 300 * FxOne, -400 * FxOne),
             V3(50 * FxOne, 0, 0)}
MovingImpulses == {V3(400 * FxOne, 0, 0), V3(0, 300 * FxOne, -400 * FxOne)}
\* Vectors the collision orchestrator stores with setVelocity, setMomentum.
SetVelocities == {V3(30 * FxOne, 0, 40 * FxOne), V3(0, 0, -2 * FxOne)}
SetMomenta == {VZero, V3(0, 0, 200 * FxOne)}
\* Positions stored with setPosition.
SetPositions == {V3(3 * FxOne, 4 * FxOne, 0)}

\* The vehicle's configuration file: physics.
ConfigMaxSpeed == 20 * FxOne
ConfigAcceleration == 10 * FxOne
ConfigFriction == Dec(9, 10)
ConfigMaxSteerAngle == Dec(5, 100)
ConfigHeightOffset == Dec(5, 10)
ConfigMass == 1000 * FxOne

(***************************************************************************)
(* Vehicle: create()                                                       *)
(***************************************************************************)
\* detectSurface, planet branch: the radius is the distance from the scene
\* node to the planet's center.
detectPlanetRadius(nodePosition, center) == VDistance(nodePosition, center)

positionOnGroundNoOffset(type, nodePosition, center, radius, ground, offset) ==
    IF type = "planet"
    THEN VAdd(center, VScale(VNormalize(VSubtract(nodePosition, center)), radius))
    ELSE V3(0, ground, 0)

\* positionOnGround: on the sphere at planetRadius + heightOffset along the
\* direction of the scene node, or on the ground plane above the origin.
positionOnGround(type, nodePosition, center, radius, ground, offset) ==
    IF type = "planet"
    THEN LET direction == VNormalize(VSubtract(nodePosition, center))
             targetDistance == radius + offset
         IN  VAdd(center, VScale(direction, targetDistance))
    ELSE V3(0, ground + offset, 0)

\* Scenes without a Planet mesh: the height of the Ground mesh (0 also when
\* the scene has none), and whether create() is given an existing mesh.
GroundScenes == {<<0, FALSE>>, <<2 * FxOne, FALSE>>, <<2 * FxOne, TRUE>>}
\* Scenes with a Planet mesh: its place (below the origin, or oblique), and
\* whether create() is given an existing mesh.
PlanetScenes == {<<V3(0, -10 * FxOne, 0), FALSE>>,
                 <<V3(0, -6 * FxOne, -8 * FxOne), FALSE>>,
                 <<V3(0, -6 * FxOne, -8 * FxOne), TRUE>>}
\* Place and orientation of an existing mesh handed to create().
MeshPositions == {V3(3 * FxOne, 4 * FxOne, 0)}
MeshRotations == {Q(0, Dec(6, 10), 0, Dec(8, 10))}

Snapshot ==
    [position |-> position, speed |-> speed, velocity |-> velocity,
     momentum |-> momentum, steerAngle |-> steerAngle, rootNode |-> rootNode]

NoCalc == [op |-> "none"]

\* The fields the constructor sets, and those create() leaves at their
\* initial values.
Constructed ==
    /\ maxSpeed = ConfigMaxSpeed
    /\ acceleration = ConfigAcceleration
    /\ friction = ConfigFriction
    /\ maxSteerAngle = ConfigMaxSteerAngle
    /\ mass = ConfigMass
    /\ collisionPhysics = DefaultCollisionConfig
    /\ speed = 0
    /\ velocity = VZero
    /\ momentum = VZero
    /\ steerAngle = 0
    /\ inputAccelerate = 0
    /\ inputSteer = 0
    /\ inputHandbrake = FALSE
    /\ steps = 0
    /\ calc = NoCalc
    /\ keys = NoKeys
    /\ page = PageLoaded
    /\ loader = LoaderEmpty

\* create() in a scene with no Planet mesh.
CreateGround ==
    /\ Constructed
    /\ surfaceType = "ground"
    /\ planetRadius = 0
    /\ planetCenter = VZero
    /\ \E scene \in GroundScenes :
         groundHeight = scene[1] /\ existingMesh = scene[2]
    /\ heightOffset = ConfigHeightOffset
    /\ IF existingMesh
       THEN /\ position \in MeshPositions
            /\ \E q \in MeshRotations :
                 rootNode = [position |-> position, rotationQuaternion |-> q]
       ELSE /\ position = positionOnGround(surfaceType, VZero, planetCenter,
                                           planetRadius, groundHeight,
                                           heightOffset)
            /\ rootNode = [position |-> position,
                           rotationQuaternion |-> QIdentity]
    /\ last = [op |-> "create", arg |-> existingMesh, pre |-> Snapshot]

\* create() in a scene with a Planet mesh.  A new scene node is at the
\* origin; an existing mesh keeps its place and fixes heightOffset.
CreatePlanet ==
    /\ Constructed
    /\ surfaceType = "planet"
    /\ \E scene \in PlanetScenes :
         planetCenter = scene[1] /\ existingMesh = scene[2]
    /\ groundHeight = 0
    /\ IF existingMesh
       THEN /\ position \in MeshPositions
            /\ planetRadius = detectPlanetRadius(position, planetCenter)
            /\ heightOffset = VDistance(position, planetCenter) - planetRadius
            /\ \E q \in MeshRotations :
                 rootNode = [position |-> position, rotationQuaternion |-> q]
       ELSE /\ planetRadius = detectPlanetRadius(VZero, planetCenter)
            /\ heightOffset = ConfigHeightOffset
            /\ position = positionOnGround(surfaceType, VZero, planetCenter,
                                           planetRadius, groundHeight,
                                           heightOffset)
            /\ rootNode = [position |-> position,
                           rotationQuaternion |-> QIdentity]
    /\ last = [op |-> "create", arg |-> existingMesh, pre |-> Snapshot]

(***************************************************************************)
(* Vehicle: update(deltaTime)                                              *)
(***************************************************************************)
BrakingForce == 30 * FxOne

handbrakeSpeedUnconditional(current, deltaTime) ==
    current - Sgn(current) * Mul(BrakingForce, deltaTime)

\* updateMovement, handbrake branch.
handbrakeSpeed(current, deltaTime) ==
    LET speedSign == Sgn(current)
        brakingAmount == Mul(BrakingForce, deltaTime)
    IN  IF Abs(current) <= brakingAmount
        THEN 0
        ELSE current - speedSign * brakingAmount

drivingSpeedFrictionFirst(current, accelerate, deltaTime) ==
    LET accelerated == current + Mul(Mul(accelerate, acceleration), deltaTime)
        slowed == Mul(accelerated, Pow(friction, deltaTime))
    IN  Max(Mul(-maxSpeed, Dec(5, 10)), Min(maxSpeed, slowed))

\* updateMovement, normal acceleration: accelerate, clamp, then friction.
drivingSpeed(current, accelerate, deltaTime) ==
    LET accelerated == current + Mul(Mul(accelerate, acceleration), deltaTime)
        clamped == Max(Mul(-maxSpeed, Dec(5, 10)), Min(maxSpeed, accelerated))
    IN  Mul(clamped, Pow(friction, deltaTime))

updateMovementSpeedBrakeAndDrive(deltaTime) ==
    IF inputHandbrake
    THEN drivingSpeed(handbrakeSpeed(speed, deltaTime), inputAccelerate,
                      deltaTime)
    ELSE drivingSpeed(speed, inputAccelerate, deltaTime)

\* updateMovement: the new speed.
updateMovementSpeed(deltaTime) ==
    IF inputHandbrake
    THEN handbrakeSpeed(speed, deltaTime)
    ELSE drivingSpeed(speed, inputAccelerate, deltaTime)

updateMovementSteerAngleStaleSpeed(newSpeed) ==
    IF Abs(speed) < Dec(5, 10)
    THEN 0
    ELSE Mul(Mul(inputSteer, maxSteerAngle), speed)

\* updateMovement: the steering angle for the speed of this frame.
updateMovementSteerAngle(newSpeed) ==
    IF Abs(newSpeed) < Dec(5, 10)
    THEN 0
    ELSE Mul(Mul(inputSteer, maxSteerAngle), newSpeed)

updateMomentumHandbraked(deltaTime) ==
    IF inputHandbrake
    THEN VZero
    ELSE applyMomentumFriction(collisionPhysics, momentum, deltaTime)

\* updateMomentum.
updateMomentum(deltaTime) ==
    applyMomentumFriction(collisionPhysics, momentum, deltaTime)

\* The local forward and up axes in world space.
forwardOf(rotation) == RotateByQuaternion(V3(0, 0, FxOne), rotation)
upOf(rotation) == RotateByQuaternion(V3(0, FxOne, 0), rotation)

\* The velocity below which a frame moves nothing.
MinVelocity == Dec(1, 10)

clampToGroundKeepY(p) == p

\* updatePositionGround: position.y = groundHeight + heightOffset.
clampToGround(p) == V3(p.x, groundHeight + heightOffset, p.z)

updatePositionGroundStaleVelocity(deltaTime, newSpeed, newSteerAngle) ==
    LET newMomentum == updateMomentum(deltaTime)
        currentRotation == rootNode.rotationQuaternion
        forward == forwardOf(currentRotation)
        drivingVelocity == VScale(forward, newSpeed)
        momentumVelocity == momentumToVelocity(newMomentum, mass)
        newVelocity == VAdd(drivingVelocity, momentumVelocity)
        moved == clampToGround(VAdd(position, VScale(newVelocity, deltaTime)))
        steeringRotation ==
            QRotationAxis(V3(0, FxOne, 0), Mul(newSteerAngle, deltaTime))
    IN  IF VLength(newVelocity) < MinVelocity
        THEN [momentum |-> newMomentum, velocity |-> velocity,
              position |-> position, rootNode |-> rootNode]
        ELSE [momentum |-> newMomentum, velocity |-> newVelocity,
              position |-> moved,
              rootNode |-> [position |-> moved,
                            rotationQuaternion |->
                                QMultiply(steeringRotation, currentRotation)]]

updatePositionGroundNoEarlyOut(deltaTime, newSpeed, newSteerAngle) ==
    LET newMomentum == updateMomentum(deltaTime)
        currentRotation == rootNode.rotationQuaternion
        forward == forwardOf(currentRotation)
        drivingVelocity == VScale(forward, newSpeed)
        momentumVelocity == momentumToVelocity(newMomentum, mass)
        newVelocity == VAdd(drivingVelocity, momentumVelocity)
        moved == clampToGround(VAdd(position, VScale(newVelocity, deltaTime)))
        steeringRotation ==
            QRotationAxis(V3(0, FxOne, 0), Mul(newSteerAngle, deltaTime))
    IN  [momentum |-> newMomentum, velocity |-> newVelocity,
         position |-> moved,
         rootNode |-> [position |-> moved,
                       rotationQuaternion |->
                           QMultiply(steeringRotation, currentRotation)]]

updatePositionGroundPostMultiplied(deltaTime, newSpeed, newSteerAngle) ==
    LET newMomentum == updateMomentum(deltaTime)
        currentRotation == rootNode.rotationQuaternion
        forward == forwardOf(currentRotation)
        drivingVelocity == VScale(forward, newSpeed)
        momentumVelocity == momentumToVelocity(newMomentum, mass)
        newVelocity == VAdd(drivingVelocity, momentumVelocity)
        moved == clampToGround(VAdd(position, VScale(newVelocity, deltaTime)))
        steeringRotation ==
            QRotationAxis(V3(0, FxOne, 0), Mul(newSteerAngle, deltaTime))
    IN  IF VLength(newVelocity) < MinVelocity
        THEN [momentum |-> newMomentum, velocity |-> VZero,
              position |-> position, rootNode |-> rootNode]
        ELSE [momentum |-> newMomentum, velocity |-> newVelocity,
              position |-> moved,
              rootNode |-> [position |-> moved,
                            rotationQuaternion |->
                                QMultiply(currentRotation, steeringRotation)]]

updatePositionGroundFrictionLast(deltaTime, newSpeed, newSteerAngle) ==
    LET newMomentum == updateMomentum(deltaTime)
        currentRotation == rootNode.rotationQuaternion
        forward == forwardOf(currentRotation)
        drivingVelocity == VScale(forward, newSpeed)
        momentumVelocity == momentumToVelocity(momentum, mass)
        newVelocity == VAdd(drivingVelocity, momentumVelocity)
        moved == clampToGround(VAdd(position, VScale(newVelocity, deltaTime)))
        steeringRotation ==
            QRotationAxis(V3(0, FxOne, 0), Mul(newSteerAngle, deltaTime))
    IN  IF VLength(newVelocity) < MinVelocity
        THEN [momentum |-> newMomentum, velocity |-> VZero,
              position |-> position, rootNode |-> rootNode]
        ELSE [momentum |-> newMomentum, velocity |-> newVelocity,
              position |-> moved,
              rootNode |-> [position |-> moved,
                            rotationQuaternion |->
                                QMultiply(steeringRotation, currentRotation)]]

updatePositionGround(deltaTime, newSpeed, newSteerAngle) ==
    LET newMomentum == updateMomentum(deltaTime)
        currentRotation == rootNode.rotationQuaternion
        forward == forwardOf(currentRotation)
        drivingVelocity == VScale(forward, newSpeed)
        momentumVelocity == momentumToVelocity(newMomentum, mass)
        newVelocity == VAdd(drivingVelocity, momentumVelocity)
        moved == clampToGround(VAdd(position, VScale(newVelocity, deltaTime)))
        steeringRotation ==
            QRotationAxis(V3(0, FxOne, 0), Mul(newSteerAngle, deltaTime))
    IN  IF VLength(newVelocity) < MinVelocity
        THEN [momentum |-> newMomentum, velocity |-> VZero,
              position |-> position, rootNode |-> rootNode]
        ELSE [momentum |-> newMomentum, velocity |-> newVelocity,
              position |-> moved,
              rootNode |-> [position |-> moved,
                            rotationQuaternion |->
                                QMultiply(steeringRotation, currentRotation)]]

\* The drift from the sphere that is corrected.
RadiusTolerance == Dec(1, 1000)

\* updatePositionPlanet: back to planetRadius + heightOffset when the
\* distance from the center is off by more than the tolerance.
correctRadius(p) ==
    LET targetDistance == planetRadius + heightOffset
        currentDistance == VDistance(p, planetCenter)
    IN  IF Abs(currentDistance - targetDistance) > RadiusTolerance
        THEN VAdd(planetCenter,
                  VScale(VNormalize(VSubtract(p, planetCenter)), targetDistance))
        ELSE p

\* The axis length below which no alignment is made.
AlignEpsilon == Dec(1, 10000)

\* createAlignmentRotation: turn the rotation's up axis onto surfaceNormal.
createAlignmentRotation(currentRotation, surfaceNormal) ==
    LET currentUp == upOf(currentRotation)
        rotationAxis == VCross(currentUp, surfaceNormal)
        rotationAxisLength == VLength(rotationAxis)
        angle == Asin(Min(FxOne, rotationAxisLength))
        alignmentQuat == QRotationAxis(VNormalize(rotationAxis), angle)
    IN  IF rotationAxisLength < AlignEpsilon
        THEN currentRotation
        ELSE QMultiply(alignmentQuat, currentRotation)

updatePositionPlanet(deltaTime, newSpeed, newSteerAngle) ==
    LET newMomentum == updateMomentum(deltaTime)
        currentRotation == rootNode.rotationQuaternion
        surfaceNormal == VNormalize(VSubtract(position, planetCenter))
        forward == forwardOf(currentRotation)
        drivingVelocity == VScale(forward, newSpeed)
        momentumVelocity == momentumToVelocity(newMomentum, mass)
        newVelocity == VAdd(drivingVelocity, momentumVelocity)
        dotProduct == VDot(forward, surfaceNormal)
        tangentForward ==
            VNormalize(VSubtract(forward, VScale(surfaceNormal, dotProduct)))
        worldUp == upOf(currentRotation)
        steeringRotation ==
            QRotationAxis(worldUp, Mul(newSteerAngle, deltaTime))
        newRotation == QMultiply(steeringRotation, currentRotation)
        angularDisplacement == Div(Mul(newSpeed, deltaTime), planetRadius)
        rotationAxis == VNormalize(VCross(surfaceNormal, tangentForward))
        movementRotation == QRotationAxis(rotationAxis, angularDisplacement)
        relativePosition == VSubtract(position, planetCenter)
        rotated ==
            VAdd(planetCenter,
                 RotateByQuaternion(relativePosition, movementRotation))
        moved == correctRadius(rotated)
        newSurfaceNormal == VNormalize(VSubtract(moved, planetCenter))
    IN  IF VLength(newVelocity) < MinVelocity
        THEN [momentum |-> newMomentum, velocity |-> VZero,
              position |-> position, rootNode |-> rootNode]
        ELSE [momentum |-> newMomentum, velocity |-> newVelocity,
              position |-> moved,
              rootNode |-> [position |-> moved,
                            rotationQuaternion |->
                                createAlignmentRotation(newRotation,
                                                        newSurfaceNormal)]]

\* update(deltaTime): updateMovement, then updatePosition.
update(deltaTime) ==
    \E newSpeed \in {updateMovementSpeed(deltaTime)} :
    \E newSteerAngle \in {updateMovementSteerAngle(newSpeed)} :
    \E moved \in {IF surfaceType = "planet"
                 THEN updatePositionPlanet(deltaTime, newSpeed, newSteerAngle)
                 ELSE updatePositionGround(deltaTime, newSpeed, newSteerAngle)} :
        /\ speed' = newSpeed
        /\ steerAngle' = newSteerAngle
        /\ momentum' = moved.momentum
        /\ velocity' = moved.velocity
        /\ position' = moved.position
        /\ rootNode' = moved.rootNode
        /\ last' = [op |-> "update", arg |-> deltaTime, pre |-> Snapshot]
        /\ UNCHANGED <<configVars, keys, page, loader, inputVars, calc>>

\* One more call of update() or of the collision orchestrator.
Called ==
    /\ steps < MaxSteps
    /\ steps' = steps + 1

UpdateWith(deltaTimes) ==
    /\ Called
    /\ \E deltaTime \in deltaTimes : update(deltaTime)

Update == UpdateWith(DeltaTimes)

(***************************************************************************)
(* Vehicle: the other public operations                                    *)
(***************************************************************************)
setInput(accelerate, steer, handbrake) ==
    /\ inputAccelerate' = accelerate
    /\ inputSteer' = steer
    /\ inputHandbrake' = handbrake
    /\ last' = [op |-> "setInput", arg |-> <<accelerate, steer, handbrake>>,
                pre |-> Snapshot]
    /\ UNCHANGED <<configVars, keys, page, loader, motionVars, steps, calc>>

\* The game loop sets the input once before each frame.
SetInputFrom(inputs) ==
    /\ last.op # "setInput"
    /\ steps < MaxSteps
    /\ \E i \in inputs : setInput(i[1], i[2], i[3])

SetInput == SetInputFrom(Inputs)

StopMovement ==
    /\ Called
    /\ speed' = 0
    /\ last' = [op |-> "stopMovement", arg |-> 0, pre |-> Snapshot]
    /\ UNCHANGED <<configVars, keys, page, loader, inputVars, position, velocity, momentum,
                   steerAngle, rootNode, calc>>

SetPositionRedetect ==
    /\ Called
    /\ \E p \in SetPositions :
        /\ position' = p
        /\ rootNode' = [rootNode EXCEPT !.position = p]
        /\ planetRadius' = VDistance(p, planetCenter)
        /\ last' = [op |-> "setPosition", arg |-> p, pre |-> Snapshot]
    /\ UNCHANGED <<surfaceType, planetCenter, groundHeight, heightOffset,
                   mass, maxSpeed, acceleration, friction, maxSteerAngle,
                   collisionPhysics, existingMesh, inputVars, speed, velocity,
                   momentum, steerAngle, calc, keys, page, loader>>

SetPositionKeepNode ==
    /\ Called
    /\ \E p \in SetPositions :
        /\ position' = p
        /\ last' = [op |-> "setPosition", arg |-> p, pre |-> Snapshot]
    /\ UNCHANGED <<configVars, keys, page, loader, inputVars, speed, velocity, momentum,
                   steerAngle, rootNode, calc>>

SetPosition ==
    /\ Called
    /\ \E p \in SetPositions :
        /\ position' = p
        /\ rootNode' = [rootNode EXCEPT !.position = p]
        /\ last' = [op |-> "setPosition", arg |-> p, pre |-> Snapshot]
    /\ UNCHANGED <<configVars, keys, page, loader, inputVars, speed, velocity, momentum,
                   steerAngle, calc>>

SetVelocity ==
    /\ Called
    /\ \E v \in SetVelocities :
        /\ velocity' = v
        /\ speed' = VLength(v)
        /\ last' = [op |-> "setVelocity", arg |-> v, pre |-> Snapshot]
    /\ UNCHANGED <<configVars, keys, page, loader, inputVars, position, momentum, steerAngle,
                   rootNode, calc>>

SetMomentum ==
    /\ Called
    /\ \E m \in SetMomenta :
        /\ momentum' = m
        /\ last' = [op |-> "setMomentum", arg |-> m, pre |-> Snapshot]
    /\ UNCHANGED <<configVars, keys, page, loader, inputVars, position, speed, velocity,
                   steerAngle, rootNode, calc>>

applyCollisionImpulseKeepSpeed(impulse) ==
    /\ momentum' = VAdd(momentum, impulse)
    /\ last' = [op |-> "applyCollisionImpulse", arg |-> impulse,
                pre |-> Snapshot, argAfter |-> impulse]
    /\ UNCHANGED <<configVars, keys, page, loader, inputVars, position, speed, velocity,
                   steerAngle, rootNode, calc>>

applyCollisionImpulseReplace(impulse) ==
    /\ momentum' = impulse
    /\ speed' = 0
    /\ last' = [op |-> "applyCollisionImpulse", arg |-> impulse,
                pre |-> Snapshot, argAfter |-> impulse]
    /\ UNCHANGED <<configVars, keys, page, loader, inputVars, position, velocity, steerAngle,
                   rootNode, calc>>

\* last.argAfter is the caller's vector after the call: addInPlace writes
\* this.momentum only.
applyCollisionImpulse(impulse) ==
    /\ momentum' = VAdd(momentum, impulse)
    /\ speed' = 0
    /\ last' = [op |-> "applyCollisionImpulse", arg |-> impulse,
                pre |-> Snapshot, argAfter |-> impulse]
    /\ UNCHANGED <<configVars, keys, page, loader, inputVars, position, velocity, steerAngle,
                   rootNode, calc>>

ApplyCollisionImpulseFrom(impulses) ==
    /\ Called
    /\ \E impulse \in impulses : applyCollisionImpulse(impulse)

ApplyCollisionImpulse == ApplyCollisionImpulseFrom(Impulses)

(***************************************************************************)
(* Specifications of the vehicle                                           *)
(***************************************************************************)
Init == CreateGround \/ CreatePlanet

Next ==
    \/ SetInput
    \/ Update
    \/ StopMovement
    \/ SetPosition
    \/ SetVelocity
    \/ SetMomentum
    \/ ApplyCollisionImpulse

Spec == Init /\ [][Next]_vars

\* Driving with collisions, on one kind of surface.
DriveInput == SetInputFrom(DrivingInputs)
DriveUpdate == UpdateWith(DeltaTimes)
DriveImpulse == ApplyCollisionImpulseFrom(MovingImpulses)

NextDrive ==
    \/ DriveInput
    \/ DriveUpdate
    \/ DriveImpulse

SpecGround == CreateGround /\ [][NextDrive]_vars
SpecPlanet == CreatePlanet /\ [][NextDrive]_vars

(***************************************************************************)
(* CollisionPhysics called directly                                        *)
(***************************************************************************)
\* new CollisionPhysics(config) with every field given.
CustomCollisionConfig ==
    [restitution |-> Dec(5, 10),
     staticObjectDamping |-> Dec(2, 10),
     momentumFriction |-> FxOne,
     momentumThreshold |-> 0]

CollisionConfigs == {DefaultCollisionConfig, CustomCollisionConfig}

\* Arguments of the calls: momenta (those of the unit tests among them),
\* frame times (friction * dt below, at and above 1), velocities and masses.
Momenta == {VZero, V3(100 * FxOne, 0, 0), V3(10 * FxOne, 0, 0),
            V3(Dec(1, 100), 0, 0), V3(Dec(1, 10), 0, 0),
            V3(-3 * FxOne, 4 * FxOne, -12 * FxOne),
            V3(0, Dec(-5, 100), 0)}
FrictionDeltaTimes == {0, Dec(1, 10), FxOne, Dec(5, 2), 3 * FxOne}
Velocities == {V3(FxOne, 0, 0), V3(Dec(-1, 2), Dec(1, 4), 2 * FxOne),
               V3(0, Dec(-7, 10), Dec(1, 3))}
Masses == {49 * FxOne, 100 * FxOne, 1000 * FxOne}
DivisorMasses == Masses \cup {0, -2 * FxOne}

frictionCall(cp, momentum_, deltaTime, count) ==
    [op |-> "applyMomentumFriction", cp |-> cp, momentum |-> momentum_,
     deltaTime |-> deltaTime, count |-> count,
     result |-> applyMomentumFriction(cp, momentum_, deltaTime)]

\* physics.applyMomentumFriction(momentum, deltaTime), the first call on a
\* new instance.
CallApplyMomentumFriction ==
    /\ calc = NoCalc
    /\ \E cp \in CollisionConfigs, m \in Momenta, dt \in FrictionDeltaTimes :
         calc' = frictionCall(cp, m, dt, 1)
    /\ UNCHANGED <<configVars, keys, page, loader, inputVars, motionVars, last, steps>>

\* currentMomentum = physics.applyMomentumFriction(currentMomentum, dt), in
\* a loop with a fixed dt.
RepeatApplyMomentumFriction ==
    /\ calc.op = "applyMomentumFriction"
    /\ calc.count < MaxRepeat
    /\ calc' = frictionCall(calc.cp, calc.result, calc.deltaTime,
                            calc.count + 1)
    /\ UNCHANGED <<configVars, keys, page, loader, inputVars, motionVars, last, steps>>

\* physics.momentumToVelocity(momentum, mass).
CallMomentumToVelocity ==
    /\ calc = NoCalc
    /\ \E m \in Momenta, divisor \in DivisorMasses :
         calc' = [op |-> "momentumToVelocity", momentum |-> m,
                  mass |-> divisor,
                  result |-> momentumToVelocity(m, divisor)]
    /\ UNCHANGED <<configVars, keys, page, loader, inputVars, motionVars, last, steps>>

\* physics.velocityToMomentum(velocity, mass).
CallVelocityToMomentum ==
    /\ calc = NoCalc
    /\ \E v \in Velocities, m \in Masses :
         calc' = [op |-> "velocityToMomentum", velocity |-> v, mass |-> m,
                  result |-> velocityToMomentum(v, m)]
    /\ UNCHANGED <<configVars, keys, page, loader, inputVars, motionVars, last, steps>>

\* physics.momentumToVelocity(physics.velocityToMomentum(v, mass), mass).
CallRoundTrip ==
    /\ calc.op = "velocityToMomentum"
    /\ calc' = [op |-> "roundTrip", velocity |-> calc.velocity,
                mass |-> calc.mass, momentum |-> calc.result,
                result |-> momentumToVelocity(calc.result, calc.mass)]
    /\ UNCHANGED <<configVars, keys, page, loader, inputVars, motionVars, last, steps>>

\* Bodies of the collision detector (the unit test's among them), collision
\* normals (unit vectors) and separation distances.
Bodies == {Body(V3(FxOne, 0, 0), 1000 * FxOne, VZero),
           Body(VZero, 1000 * FxOne, V3(2 * FxOne, 0, 0)),
           Body(V3(Dec(-1, 2), Dec(1, 4), 2 * FxOne), 100 * FxOne,
                V3(0, 0, FxOne)),
           Body(V3(Dec(6, 10), Dec(-8, 10), 0), 49 * FxOne, V3(0, FxOne, 0))}
Normals == {V3(FxOne, 0, 0), V3(0, FxOne, 0), V3(0, Dec(6, 10), Dec(8, 10)),
            V3(-FxOne, 0, 0)}
\* Normals that are not unit vectors: that of two coincident positions
\* (normalize() leaves the zero vector as it is), a short and a long one.
SkewNormals == {VZero, V3(Dec(1, 2), 0, 0), V3(FxOne, FxOne, 0)}
Distances == {0, Dec(3, 10), Dec(1, 2), FxOne}

\* physics.isMomentumNegligible(momentum).
CallIsMomentumNegligible ==
    /\ calc = NoCalc
    /\ \E cp \in CollisionConfigs, m \in Momenta :
         calc' = [op |-> "isMomentumNegligible", cp |-> cp, momentum |-> m,
                  result |-> isMomentumNegligible(cp, m)]
    /\ UNCHANGED <<configVars, keys, page, loader, inputVars, motionVars, last, steps>>

\* physics.calculateStaticCollision(body, normal).
CallCalculateStaticCollision ==
    /\ calc = NoCalc
    /\ \E cp \in CollisionConfigs, body \in Bodies, n \in Normals :
         calc' = [op |-> "calculateStaticCollision", cp |-> cp,
                  body |-> body, normal |-> n,
                  result |-> calculateStaticCollision(cp, body, n)]
    /\ UNCHANGED <<configVars, keys, page, loader, inputVars, motionVars, last, steps>>

\* physics.calculateDynamicCollision(body1, body2, normal).
CallCalculateDynamicCollision ==
    /\ calc = NoCalc
    /\ \E cp \in CollisionConfigs, body1 \in Bodies, body2 \in Bodies,
          n \in Normals \cup SkewNormals :
         calc' = [op |-> "calculateDynamicCollision", cp |-> cp,
                  body1 |-> body1, body2 |-> body2, normal |-> n,
                  result |-> calculateDynamicCollision(cp, body1, body2, n)]
    /\ UNCHANGED <<configVars, keys, page, loader, inputVars, motionVars, last, steps>>

\* physics.calculateSeparation(mass1, mass2, distance, interpenetrating).
CallCalculateSeparation ==
    /\ calc = NoCalc
    /\ \E mass1 \in Masses, mass2 \in Masses, d \in Distances,
          interpenetrating \in BOOLEAN :
         calc' = [op |-> "calculateSeparation", mass1 |-> mass1,
                  mass2 |-> mass2, distance |-> d,
                  interpenetrating |-> interpenetrating,
                  result |-> calculateSeparation(mass1, mass2, d,
                                                 interpenetrating)]
    /\ UNCHANGED <<configVars, keys, page, loader, inputVars, motionVars, last, steps>>

NextPhysics ==
    \/ CallApplyMomentumFriction
    \/ RepeatApplyMomentumFriction
    \/ CallMomentumToVelocity
    \/ CallVelocityToMomentum
    \/ CallRoundTrip
    \/ CallIsMomentumNegligible
    \/ CallCalculateStaticCollision
    \/ CallCalculateDynamicCollision
    \/ CallCalculateSeparation

SpecPhysics == Init /\ [][NextPhysics]_vars


(***************************************************************************)
(* Coasting: impulses, then frames of one fixed length with no input       *)
(***************************************************************************)
\* The collision detector's impulses arrive before the coasting starts.
CoastImpulse ==
    /\ last.op # "update"
    /\ ApplyCollisionImpulseFrom(Impulses)

\* The render loop calls update() every frame, here with a fixed dt > 0.
CoastUpdate ==
    /\ \E deltaTime \in DeltaTimes \ {0} :
         /\ last.op = "update" => deltaTime = last.arg
         /\ update(deltaTime)
    /\ UNCHANGED steps

NextCoast ==
    \/ CoastImpulse
    \/ CoastUpdate

\* The last frame changed nothing of the vehicle: the next one would repeat
\* it and leave every variable as it is, `last` included.  These are the
\* states in which <<CoastUpdate>>_vars is not enabled.
AtRest ==
    /\ last.op = "update"
    /\ last.pre = Snapshot

\* No frame changes a state that is at rest.
AtRestIsQuiescent == [][AtRest => ~CoastUpdate]_vars

\* The render loop calls update() every frame, for ever: the weak fairness
\* WF_vars(CoastUpdate), written with AtRest for ~ENABLED <<CoastUpdate>>_vars.
FramesForEver == []<>AtRest \/ []<><<CoastUpdate>>_vars

SpecCoast == Init /\ [][NextCoast]_vars /\ FramesForEver

(***************************************************************************)
(* A long drive over the planet: impulses and one input, then frames of    *)
(* one fixed length                                                        *)
(***************************************************************************)
\* The keys are pressed once and held.
OrbitInput ==
    /\ last.op \in {"create", "applyCollisionImpulse"}
    /\ \E i \in DrivingInputs : setInput(i[1], i[2], i[3])

OrbitUpdate ==
    /\ steps < MaxSteps + MaxFrames
    /\ steps' = steps + 1
    /\ \E deltaTime \in DeltaTimes :
         /\ last.op = "update" => deltaTime = last.arg
         /\ update(deltaTime)

NextOrbit ==
    \/ DriveImpulse /\ last.op # "update"
    \/ OrbitInput
    \/ OrbitUpdate

SpecOrbit == CreatePlanet /\ [][NextOrbit]_vars

\* Driving frame after frame with the keys held, on either surface.
NextFrames ==
    \/ OrbitInput
    \/ OrbitUpdate

SpecFrames == Init /\ [][NextFrames]_vars

(***************************************************************************)
(* Frames whose velocity is negligible: a collision that cancels the       *)
(* driving velocity, or a weak one                                         *)
(***************************************************************************)
\* An impulse against the forward axis of a new vehicle, and a weak one.
CancelImpulses == {V3(0, 0, -1000 * FxOne), V3(50 * FxOne, 0, 0)}
\* A frame time short enough for the first frame's driving velocity to be
\* cancelled by the first impulse.
CancelDeltaTimes == {Dec(1, 10)}

CancelImpulse ==
    /\ last.op = "create"
    /\ \E impulse \in CancelImpulses : applyCollisionImpulse(impulse)
    /\ UNCHANGED steps

CancelUpdate ==
    /\ Called
    /\ \E deltaTime \in CancelDeltaTimes : update(deltaTime)

NextCancel ==
    \/ CancelImpulse
    \/ OrbitInput
    \/ CancelUpdate

SpecCancel == Init /\ [][NextCancel]_vars

(***************************************************************************)
(* Driving a vehicle whose mesh was handed to create() tilted              *)
(***************************************************************************)
\* Orientation of an existing mesh that is not a turn about the up axis.
TiltedRotations == {Q(Dec(6, 10), 0, 0, Dec(8, 10))}

\* create(existingMesh) in a scene with no Planet mesh and no Ground mesh:
\* the mesh keeps its place and its orientation.
CreateTilted ==
    /\ Constructed
    /\ surfaceType = "ground"
    /\ planetRadius = 0
    /\ planetCenter = VZero
    /\ groundHeight = 0
    /\ existingMesh = TRUE
    /\ heightOffset = ConfigHeightOffset
    /\ position \in MeshPositions
    /\ \E q \in TiltedRotations :
         rootNode = [position |-> position, rotationQuaternion |-> q]
    /\ last = [op |-> "create", arg |-> existingMesh, pre |-> Snapshot]

InitTilt == CreateGround \/ CreateTilted

SpecTilt == InitTilt /\ [][NextDrive]_vars

(***************************************************************************)
(* One frame after a collision: the keys, an impulse between frames, then  *)
(* update()                                                                *)
(***************************************************************************)
\* Impulses of the collision detector: one that moves the vehicle, one too
\* weak to move it, and one at the momentum threshold.
SettleImpulses == {V3(400 * FxOne, 0, 0), V3(50 * FxOne, 0, 0),
                   V3(Dec(5, 100), 0, 0)}

SettleInput ==
    /\ last.op = "create"
    /\ \E i \in DrivingInputs : setInput(i[1], i[2], i[3])

\* The collision detector runs between two frames.
SettleImpulse ==
    /\ last.op \in {"create", "setInput"}
    /\ \E impulse \in SettleImpulses : applyCollisionImpulse(impulse)
    /\ UNCHANGED steps

\* The collision orchestrator stores a momentum of its own: one at the
\* momentum threshold, one below it.
SettleMomenta == {V3(Dec(3, 100), 0, Dec(4, 100)), V3(Dec(1, 100), 0, 0)}

SettleMomentum ==
    /\ last.op \in {"create", "setInput"}
    /\ \E m \in SettleMomenta :
        /\ momentum' = m
        /\ last' = [op |-> "setMomentum", arg |-> m, pre |-> Snapshot]
    /\ UNCHANGED <<configVars, keys, page, loader, inputVars, position, speed, velocity,
                   steerAngle, rootNode, steps, calc>>

SettleUpdate ==
    /\ last.op # "update"
    /\ UpdateWith(DeltaTimes)

NextSettle ==
    \/ SettleInput
    \/ SettleImpulse
    \/ SettleMomentum
    \/ SettleUpdate

SpecSettle == Init /\ [][NextSettle]_vars

(***************************************************************************)
(* Gliding: the vehicle is brought to a speed, the keys are released, then *)
(* frames of one fixed length                                              *)
(***************************************************************************)
\* The accelerator is pressed, forward or reverse, with or without the wheel.
GlideInput ==
    /\ last.op = "create"
    /\ \E i \in {d \in DrivingInputs : ~d[3]} : setInput(i[1], i[2], i[3])

\* The accelerator has just been pressed: a frame of driving is due.
Driving ==
    /\ last.op = "setInput"
    /\ inputAccelerate # 0

\* The collision orchestrator hands the vehicle a velocity.
GlideSetVelocity ==
    /\ last.op = "create"
    /\ SetVelocity

\* The accelerator is released; the wheel stays where it is.
GlideRelease ==
    /\ \/ last.op = "update" /\ inputAccelerate # 0
       \/ last.op = "setVelocity"
    /\ setInput(0, inputSteer, FALSE)

\* No key drives the vehicle any more.
Released ==
    /\ inputAccelerate = 0
    /\ ~inputHandbrake
    /\ last.op \in {"create", "setInput", "update"}

\* The render loop calls update(): one frame of a second while driving,
\* then, the accelerator released, every frame with a fixed dt > 0.
GlideUpdate ==
    /\ \E deltaTime \in DeltaTimes \ {0} :
         /\ \/ Driving /\ deltaTime = FxOne
            \/ Released /\ (last.op = "update" => deltaTime = last.arg)
         /\ update(deltaTime)
    /\ UNCHANGED steps

NextGlide ==
    \/ GlideInput
    \/ GlideSetVelocity
    \/ GlideRelease
    \/ GlideUpdate

\* The render loop calls update() every frame, for ever: the weak fairness
\* WF_vars(GlideUpdate), written with its enabling condition.
GlideForEver == []<>(~Released \/ AtRest) \/ []<><<GlideUpdate>>_vars

SpecGlide == CreateGround /\ [][NextGlide]_vars /\ GlideForEver

(***************************************************************************)
(* Several collisions between two frames                                   *)
(***************************************************************************)
\* The collision orchestrator seeds the momentum and the velocity.
PileSeed ==
    /\ last.op = "create"
    /\ SetMomentum

PileVelocity ==
    /\ last.op \in {"create", "setMomentum"}
    /\ SetVelocity

\* The collision detector reports one contact after the other.
PileImpulse ==
    /\ steps < MaxSteps + 2
    /\ steps' = steps + 1
    /\ \E impulse \in Impulses : applyCollisionImpulse(impulse)

NextPile ==
    \/ PileSeed
    \/ PileVelocity
    \/ PileImpulse

SpecPile == Init /\ [][NextPile]_vars

(***************************************************************************)
(* InputManager: key events and getInput                                   *)
(***************************************************************************)
\* Elements a key event can have as its target.
Targets == {[tagName |-> "BODY", isContentEditable |-> FALSE],
            [tagName |-> "INPUT", isContentEditable |-> FALSE],
            [tagName |-> "TEXTAREA", isContentEditable |-> FALSE],
            [tagName |-> "DIV", isContentEditable |-> TRUE]}
\* Where the model's keyup events come from: the page, or an input field.
UpTargets == {t \in Targets : t.tagName \in {"BODY", "INPUT"}}

\* window.dispatchEvent(new KeyboardEvent('keydown', ...)).
KeyDown ==
    /\ \E code \in KeyCodes, target \in Targets :
         LET event == [code |-> code, target |-> target]
         IN  /\ keys' = keydown(keys, event)
             /\ last' = [op |-> "keydown", arg |-> event]
    /\ UNCHANGED <<configVars, inputVars, motionVars, steps, calc, page, loader>>

\* window.dispatchEvent(new KeyboardEvent('keyup', ...)).
KeyUp ==
    /\ \E code \in KeyCodes, target \in UpTargets :
         LET event == [code |-> code, target |-> target]
         IN  /\ keys' = keyup(keys, event)
             /\ last' = [op |-> "keyup", arg |-> event]
    /\ UNCHANGED <<configVars, inputVars, motionVars, steps, calc, page, loader>>

\* inputManager.getInput(): last.result is what it returns.
GetInput ==
    /\ last' = [op |-> "getInput", arg |-> keys, result |-> getInput(keys)]
    /\ UNCHANGED <<configVars, inputVars, motionVars, steps, calc, keys, page,
                 loader>>

NextInput ==
    \/ KeyDown
    \/ KeyUp
    \/ GetInput

\* The input manager of a game on flat ground.
InitInput == CreateGround /\ groundHeight = 0 /\ ~existingMesh

SpecInput == InitInput /\ [][NextInput]_vars

(***************************************************************************)
(* Model generator page: the user, the timeouts and the responses          *)
(***************************************************************************)
\* Polling chains alive at most: a chain is a submission, a status request
\* or a result request in flight, or a pending timeout.
MaxChains == 2

chains(p) == p.posts + p.polls + p.results + p.timers

\* A handler runs on the page, and leaves it as p.
PageStep(p) ==
    /\ page' = p
    /\ UNCHANGED <<configVars, inputVars, motionVars, last, steps, calc, keys,
                   loader>>

\* handleImageFile's reader.onload: an image is chosen; the button is
\* enabled whatever the page is doing.
HandleImageFile ==
    PageStep([page EXCEPT !.button = TRUE, !.error = ""])

\* A click on the enabled generate button: clearError() and
\* startGeneration() up to the fetch call.
ClickGenerate ==
    /\ page.button
    /\ chains(page) < MaxChains
    /\ PageStep([setGenerating(page, TRUE) EXCEPT !.error = "",
                                                  !.request_id = "",
                                                  !.last_status = "",
                                                  !.posts = @ + 1])

\* The submission is answered.
SubmitRespondsWith(replies) ==
    /\ page.posts > 0
    /\ \E reply \in replies :
         PageStep(submitResponse([page EXCEPT !.posts = @ - 1,
                                              !.error = ""], reply))

SubmitResponds == SubmitRespondsWith(SubmitReplies)

\* A pending timeout fires (the oldest one): its callback calls
\* pollStatus().
TimerFires ==
    /\ page.timers > 0
    /\ PageStep(pollStatus([page EXCEPT
                                !.error = "",
                                !.timers = @ - 1,
                                !.pollTimer = IF page.timers = 1
                                              THEN "fired" ELSE @]))

\* A status request is answered.
StatusRespondsWith(statuses) ==
    /\ page.polls > 0
    /\ \E status \in statuses :
         PageStep(statusResponse([page EXCEPT !.polls = @ - 1,
                                              !.error = ""], status))

StatusResponds == StatusRespondsWith(Statuses)

\* A result request is answered.
ResultResponds ==
    /\ page.results > 0
    /\ \E reply \in ResultReplies :
         PageStep(resultResponse([page EXCEPT !.results = @ - 1,
                                              !.error = ""], reply))

\* The page is loaded again.
LoadPage == PageStep(init(page))

NextPoll ==
    \/ HandleImageFile
    \/ ClickGenerate
    \/ SubmitResponds
    \/ TimerFires
    \/ StatusResponds
    \/ ResultResponds
    \/ LoadPage

InitPoll == CreateGround /\ groundHeight = 0 /\ ~existingMesh

\* Every timeout set fires and every request sent is answered.
PollFairness ==
    /\ WF_vars(TimerFires)
    /\ WF_vars(SubmitResponds)
    /\ WF_vars(StatusResponds)
    /\ WF_vars(ResultResponds)

SpecPoll == InitPoll /\ [][NextPoll]_vars /\ PollFairness

(***************************************************************************)
(* VehicleConfigLoader: calls and fetches                                  *)
(***************************************************************************)
LoaderStep(l, call) ==
    /\ loader' = l
    /\ last' = call
    /\ UNCHANGED <<configVars, inputVars, motionVars, steps, calc, keys,
                   page>>

\* await VehicleConfigLoader.loadVehicleConfig(vehicleId, basePath), up to
\* its first await: the cached config is returned, or the file is fetched.
\* The caller awaits each call before it makes another.
LoadVehicleConfig ==
    /\ loader.pending = NoCall
    /\ \E vehicleId \in VehicleIds, basePath \in BasePaths :
         LET call == [vehicleId |-> vehicleId, basePath |-> basePath]
         IN  IF cacheHit(loader, vehicleId, basePath)
             THEN LoaderStep(loader,
                             [op |-> "loadVehicleConfig", arg |-> call,
                              settled |-> "resolved",
                              result |-> loader.configCache[
                                             cacheKey(vehicleId, basePath)],
                              fetched |-> FALSE, pre |-> loader])
             ELSE LoaderStep([loader EXCEPT !.pending = call],
                             [op |-> "fetch", arg |-> call])

\* The fetch settles and the call with it: the config is cached and
\* returned, or the error is logged and thrown again.
FetchSettles ==
    /\ loader.pending # NoCall
    /\ \E outcome \in FetchOutcomes :
         LET key == cacheKey(loader.pending.vehicleId,
                             loader.pending.basePath)
         IN  LoaderStep([configCache |-> cacheAfterFetch(loader, outcome),
                         pending |-> NoCall,
                         loaded |-> IF outcome \in Documents
                                       /\ loader.loaded[key] = "none"
                                    THEN [loader.loaded EXCEPT ![key] = outcome]
                                    ELSE loader.loaded],
                        [op |-> "loadVehicleConfig", arg |-> loader.pending,
                         settled |-> IF outcome \in Documents
                                     THEN "resolved" ELSE "rejected",
                         result |-> outcome,
                         fetched |-> TRUE, pre |-> loader])

NextLoader ==
    \/ LoadVehicleConfig
    \/ FetchSettles

InitLoader == CreateGround /\ groundHeight = 0 /\ ~existingMesh

SpecLoader == InitLoader /\ [][NextLoader]_vars

(***************************************************************************)
(* Properties: Vehicle                                                     *)
(***************************************************************************)
\* C1: in planet mode, after create() and after any sequence of setInput,
\* update(dt) with dt >= 0 and applyCollisionImpulse calls, the distance
\* from position to planetCenter differs from planetRadius + heightOffset
\* by less than 1e-3.
C1_OnSphere ==
    surfaceType = "planet" =>
        Abs(VDistance(position, planetCenter) - (planetRadius + heightOffset))
            < Dec(1, 1000)

\* A frame has moved the vehicle over the planet.
C1_Witness ==
    /\ surfaceType = "planet"
    /\ last.op = "update"
    /\ position # last.pre.position

C3_SpeedInRange ==
    /\ Mul(-maxSpeed, Dec(5, 10)) <= speed
    /\ speed <= maxSpeed

\* C4: an update(dt) with the handbrake engaged and dt >= 0 never gives a
\* speed of the opposite sign to the old speed, never a larger magnitude,
\* and gives exactly 0 whenever 30 * dt >= |old speed|.
C4_HandbrakeNoOvershoot ==
    (last.op = "update" /\ inputHandbrake) =>
        /\ Sgn(speed) * Sgn(last.pre.speed) >= 0
        /\ Abs(speed) <= Abs(last.pre.speed)
        /\ (Mul(30 * FxOne, last.arg) >= Abs(last.pre.speed) => speed = 0)

\* A handbrake frame has slowed a moving vehicle without stopping it.
C4_Witness ==
    /\ last.op = "update"
    /\ inputHandbrake
    /\ speed # 0
    /\ speed # last.pre.speed

\* C5: with no further applyCollisionImpulse or setMomentum call, under
\* repeated update(dt) with a fixed dt > 0 the magnitude of momentum never
\* increases from one frame to the next, it eventually is exactly the zero
\* vector, and from then on it stays zero.
C5_MomentumDecays ==
    /\ [][last'.op = "update" => VLength(momentum') <= VLength(momentum)]_vars
    /\ <>[](momentum = VZero)

\* Coasting has brought a momentum given by an impulse to exactly zero.
C5_Witness ==
    /\ last.op = "update"
    /\ last.pre.momentum # VZero
    /\ momentum = VZero

(***************************************************************************)
(* Properties: CollisionPhysics                                            *)
(***************************************************************************)
\* C6, as the claim states it: with any fixed dt, each application of
\* applyMomentumFriction strictly decreases the magnitude of a non-zero
\* momentum, and the zero vector gives the zero vector.
C6_StrictDecreaseAnyDt ==
    calc.op = "applyMomentumFriction" =>
        /\ calc.momentum # VZero =>
               VLength(calc.result) < VLength(calc.momentum)
        /\ calc.momentum = VZero => calc.result = VZero

\* C6, amended: with a fixed dt > 0, a positive friction coefficient and a
\* positive threshold, each application of applyMomentumFriction strictly
\* decreases the magnitude of a non-zero momentum, down to the zero vector;
\* the zero vector gives the zero vector whatever dt.
C6_StrictDecrease ==
    calc.op = "applyMomentumFriction" =>
        /\ (/\ calc.momentum # VZero
            /\ calc.deltaTime > 0
            /\ calc.cp.momentumFriction > 0
            /\ calc.cp.momentumThreshold > 0) =>
               VLength(calc.result) < VLength(calc.momentum)
        /\ calc.momentum = VZero => calc.result = VZero

\* A repeated application has ended at the zero vector.
C6_Witness ==
    /\ calc.op = "applyMomentumFriction"
    /\ calc.count > 2
    /\ calc.deltaTime > 0
    /\ calc.cp.momentumThreshold > 0
    /\ calc.momentum # VZero
    /\ calc.result = VZero

\* C7: applyMomentumFriction returns the momentum scaled by
\* max(0, 1 - momentumFriction * dt) when the scaled vector's magnitude is at
\* least momentumThreshold, and the zero vector when it is below; with
\* friction 0.4 and threshold 0.05, (100,0,0) and dt = 1 give (60,0,0) and
\* (0.01,0,0) gives the zero vector.
C7_FrictionResult ==
    calc.op = "applyMomentumFriction" =>
        LET factor == Max(0, FxOne - Mul(calc.cp.momentumFriction,
                                         calc.deltaTime))
            scaled == V3(Mul(calc.momentum.x, factor),
                         Mul(calc.momentum.y, factor),
                         Mul(calc.momentum.z, factor))
            defaults == /\ calc.cp.momentumFriction = Dec(4, 10)
                        /\ calc.cp.momentumThreshold = Dec(5, 100)
        IN  /\ VLength(scaled) >= calc.cp.momentumThreshold =>
                   calc.result = scaled
            /\ VLength(scaled) < calc.cp.momentumThreshold =>
                   calc.result = VZero
            /\ (/\ defaults
                /\ calc.momentum = V3(100 * FxOne, 0, 0)
                /\ calc.deltaTime = FxOne) =>
                   calc.result = V3(60 * FxOne, 0, 0)
            /\ (defaults /\ calc.momentum = V3(Dec(1, 100), 0, 0)) =>
                   calc.result = VZero

\* The unit test's negligible momentum has been snapped to zero.
C7_Witness ==
    /\ calc.op = "applyMomentumFriction"
    /\ calc.cp.momentumThreshold = Dec(5, 100)
    /\ calc.momentum = V3(Dec(1, 100), 0, 0)
    /\ calc.deltaTime = FxOne
    /\ calc.result = VZero

\* C8: when momentumFriction * dt exceeds 1 the result of
\* applyMomentumFriction is the zero vector, and for every dt >= 0 no
\* component of the result has the opposite sign to that component of the
\* input.
C8_ClampNotInvert ==
    calc.op = "applyMomentumFriction" =>
        /\ Mul(calc.cp.momentumFriction, calc.deltaTime) > FxOne =>
               calc.result = VZero
        /\ Sgn(calc.result.x) * Sgn(calc.momentum.x) >= 0
        /\ Sgn(calc.result.y) * Sgn(calc.momentum.y) >= 0
        /\ Sgn(calc.result.z) * Sgn(calc.momentum.z) >= 0

\* A frame so long that friction * dt exceeds 1 has stopped a momentum.
C8_Witness ==
    /\ calc.op = "applyMomentumFriction"
    /\ Mul(calc.cp.momentumFriction, calc.deltaTime) > FxOne
    /\ calc.momentum # VZero
    /\ calc.result = VZero

\* C9: momentumToVelocity(m, 0) is the zero vector for every m; for a mass
\* other than 0 the result is m / mass (to the rounding of the reciprocal
\* the code multiplies by).
C9_MomentumToVelocity ==
    calc.op = "momentumToVelocity" =>
        /\ calc.mass = 0 => calc.result = VZero
        /\ calc.mass # 0 =>
               \A c \in {"x", "y", "z"} :
                   Abs(calc.result[c] - Div(calc.momentum[c], calc.mass))
                       <= Abs(calc.momentum[c]) \div FxOne + 1

\* A non-zero momentum has been converted with mass 0.
C9_Witness ==
    /\ calc.op = "momentumToVelocity"
    /\ calc.mass = 0
    /\ calc.momentum # VZero
    /\ calc.result = VZero

\* C10, as the claim states it: for mass > 0 the round trip
\* momentumToVelocity(velocityToMomentum(v, mass), mass) equals v.
C10_RoundTripExact ==
    (calc.op = "roundTrip" /\ calc.mass > 0) => calc.result = calc.velocity

\* C10, amended: velocityToMomentum(v, mass) is v scaled by mass, and for
\* mass > 0 the round trip gives v back to within the rounding of the
\* reciprocal (one grid step per unit of momentum).
C10_RoundTrip ==
    /\ calc.op = "velocityToMomentum" =>
           /\ \A c \in {"x", "y", "z"} :
                  calc.result[c] = Mul(calc.velocity[c], calc.mass)
           /\ (calc.velocity = V3(FxOne, 0, 0) /\ calc.mass = 1000 * FxOne) =>
                  calc.result = V3(1000 * FxOne, 0, 0)
    /\ (calc.op = "roundTrip" /\ calc.mass > 0) =>
           \A c \in {"x", "y", "z"} :
               Abs(calc.result[c] - calc.velocity[c])
                   <= Abs(calc.momentum[c]) \div FxOne + 1

\* A round trip has come back off by rounding.
C10_Witness ==
    /\ calc.op = "roundTrip"
    /\ calc.mass > 0
    /\ calc.result # calc.velocity

\* C11: isMomentumNegligible(m) is true exactly when the magnitude of m is
\* strictly below momentumThreshold; a magnitude equal to the threshold is
\* not negligible.
C11_NegligibleBelowThreshold ==
    calc.op = "isMomentumNegligible" =>
        /\ VLength(calc.momentum) < calc.cp.momentumThreshold =>
               calc.result = TRUE
        /\ VLength(calc.momentum) > calc.cp.momentumThreshold =>
               calc.result = FALSE
        /\ VLength(calc.momentum) = calc.cp.momentumThreshold =>
               calc.result = FALSE
        /\ calc.cp = DefaultCollisionConfig =>
               /\ calc.momentum = V3(Dec(1, 100), 0, 0) => calc.result = TRUE
               /\ calc.momentum = V3(10 * FxOne, 0, 0) => calc.result = FALSE

\* A momentum whose magnitude equals the threshold has been tested.
C11_Witness ==
    /\ calc.op = "isMomentumNegligible"
    /\ calc.momentum # VZero
    /\ VLength(calc.momentum) = calc.cp.momentumThreshold
    /\ calc.result = FALSE

\* The momentum mass * velocity of a body.
BodyMomentum(body) == VScale(body.velocity, body.mass)

\* Rounding allowed on a quantity that carries a factor of the given mass.
MassTolerance(m) == 4 * (m \div FxOne) + 4

\* C12: calculateStaticCollision(body, n) is
\* staticObjectDamping * (M - 2 (M . n) n) with M = mass * velocity: for a
\* unit normal the component along n is negated and the tangential
\* component keeps its direction, both scaled by the damping.  With the
\* default config, velocity (1,0,0), mass 1000 and normal (1,0,0) the x
\* component is -400.
C12_StaticCollision ==
    calc.op = "calculateStaticCollision" =>
        LET M == BodyMomentum(calc.body)
            n == calc.normal
            d == calc.cp.staticObjectDamping
            tol == MassTolerance(calc.body.mass)
            along(v) == VScale(n, VDot(v, n))
            expected == VScale(VSubtract(M, VScale(n, 2 * VDot(M, n))), d)
        IN  /\ \A c \in {"x", "y", "z"} :
                   Abs(calc.result[c] - expected[c]) <= tol
            /\ VLength(n) = FxOne =>
                   /\ Abs(VDot(calc.result, n) + Mul(d, VDot(M, n))) <= tol
                   /\ \A c \in {"x", "y", "z"} :
                          Abs(VSubtract(calc.result, along(calc.result))[c]
                              - VScale(VSubtract(M, along(M)), d)[c]) <= tol
            /\ ( /\ calc.cp = DefaultCollisionConfig
                 /\ calc.body.velocity = V3(FxOne, 0, 0)
                 /\ calc.body.mass = 1000 * FxOne
                 /\ n = V3(FxOne, 0, 0) ) =>
                   calc.result = V3(-400 * FxOne, 0, 0)

\* A body moving obliquely to the normal has been reflected: it has both a
\* normal and a tangential component.
C12_Witness ==
    /\ calc.op = "calculateStaticCollision"
    /\ VDot(calc.body.velocity, calc.normal) > 0
    /\ VCross(calc.body.velocity, calc.normal) # VZero
    /\ VDot(calc.result, calc.normal) < 0

\* C13: for masses m1, m2 > 0, calculateDynamicCollision returns
\* impulse = j n with j = -(1 + e) ((v1 - v2) . n) / (1/m1 + 1/m2),
\* body1NewVelocity = v1 + impulse / m1 and
\* body2NewVelocity = v2 - impulse / m2.
C13_DynamicCollision ==
    (/\ calc.op = "calculateDynamicCollision"
     /\ calc.body1.mass > 0
     /\ calc.body2.mass > 0) =>
        LET v1 == calc.body1.velocity
            v2 == calc.body2.velocity
            m1 == calc.body1.mass
            m2 == calc.body2.mass
            n == calc.normal
            j == Div(Mul(-(FxOne + calc.cp.restitution),
                         VDot(VSubtract(v1, v2), n)),
                     Div(FxOne, m1) + Div(FxOne, m2))
            impulse == calc.result.impulse
        IN  /\ impulse = VScale(n, j)
            /\ \A c \in {"x", "y", "z"} :
                   /\ Abs(calc.result.body1NewVelocity[c]
                          - (v1[c] + Div(impulse[c], m1)))
                          <= Abs(impulse[c]) \div FxOne + 1
                   /\ Abs(calc.result.body2NewVelocity[c]
                          - (v2[c] - Div(impulse[c], m2)))
                          <= Abs(impulse[c]) \div FxOne + 1
            /\ ( /\ calc.cp = DefaultCollisionConfig
                 /\ v1 = V3(FxOne, 0, 0) /\ m1 = 1000 * FxOne
                 /\ v2 = VZero /\ m2 = 1000 * FxOne
                 /\ n = V3(FxOne, 0, 0) ) =>
                   /\ impulse = V3(-650 * FxOne, 0, 0)
                   /\ calc.result.body1NewVelocity = V3(Dec(35, 100), 0, 0)
                   /\ calc.result.body2NewVelocity = V3(Dec(65, 100), 0, 0)

\* Two bodies of different mass have exchanged a non-zero impulse.
C13_Witness ==
    /\ calc.op = "calculateDynamicCollision"
    /\ calc.body1.mass > 0
    /\ calc.body2.mass > 0
    /\ calc.body1.mass # calc.body2.mass
    /\ calc.result.impulse # VZero
    /\ calc.result.body1NewVelocity # calc.body1.velocity
    /\ calc.result.body2NewVelocity # calc.body2.velocity

\* C14: calculateDynamicCollision returns shouldSeparate = true exactly when
\* (v1 - v2) . n > 0, and false when that product is zero or negative.
C14_ShouldSeparate ==
    calc.op = "calculateDynamicCollision" =>
        LET along == VDot(VSubtract(calc.body1.velocity, calc.body2.velocity),
                          calc.normal)
        IN  /\ along > 0 => calc.result.shouldSeparate = TRUE
            /\ along = 0 => calc.result.shouldSeparate = FALSE
            /\ along < 0 => calc.result.shouldSeparate = FALSE

\* Two bodies with a relative velocity tangential to the normal have been
\* tested: the product is zero and they are not separated.
C14_Witness ==
    /\ calc.op = "calculateDynamicCollision"
    /\ calc.body1.velocity # calc.body2.velocity
    /\ VDot(VSubtract(calc.body1.velocity, calc.body2.velocity),
            calc.normal) = 0
    /\ calc.result.shouldSeparate = FALSE

\* C15: calculateSeparation(mass1, mass2, distance, interpenetrating)
\* returns body1Separation = k distance mass2 / (mass1 + mass2) and
\* body2Separation = k distance mass1 / (mass1 + mass2), k = 2 when
\* interpenetrating and 1 otherwise; for positive masses the two sum to
\* k distance and the heavier body is moved less.  (Equalities are to the
\* rounding of a quotient and two products: three grid steps.)
C15_Separation ==
    calc.op = "calculateSeparation" =>
        LET k == IF calc.interpenetrating THEN 2 ELSE 1
            total == calc.mass1 + calc.mass2
            s1 == calc.result.body1Separation
            s2 == calc.result.body2Separation
        IN  /\ Abs(s1 - Div(Mul(k * calc.distance, calc.mass2), total))
                   <= 3
            /\ Abs(s2 - Div(Mul(k * calc.distance, calc.mass1), total))
                   <= 3
            /\ (calc.mass1 > 0 /\ calc.mass2 > 0) =>
                   /\ Abs(s1 + s2 - k * calc.distance) <= 3
                   /\ calc.mass1 > calc.mass2 => s1 <= s2
                   /\ calc.mass2 > calc.mass1 => s2 <= s1
                   /\ (calc.mass1 > calc.mass2 /\ calc.distance > 0) => s1 < s2

\* Two interpenetrating bodies of different mass have been separated.
C15_Witness ==
    /\ calc.op = "calculateSeparation"
    /\ calc.interpenetrating
    /\ calc.mass1 > calc.mass2
    /\ calc.distance > 0
    /\ calc.result.body1Separation < calc.result.body2Separation

\* C16: applyCollisionImpulse(impulse) sets momentum to the old momentum
\* plus impulse and speed to 0, and leaves position, orientation, velocity,
\* the stored inputs and the caller's impulse vector unchanged.
C16_ImpulseEffect ==
    [][last'.op = "applyCollisionImpulse" =>
          /\ momentum' = VAdd(momentum, last'.arg)
          /\ speed' = 0
          /\ position' = position
          /\ rootNode' = rootNode
          /\ velocity' = velocity
          /\ UNCHANGED inputVars
          /\ last'.argAfter = last'.arg]_vars

\* An impulse has been applied to a vehicle that had a speed and a velocity,
\* with a key held.
C16_Witness ==
    /\ last.op = "applyCollisionImpulse"
    /\ last.pre.speed # 0
    /\ speed = 0
    /\ velocity # VZero
    /\ inputAccelerate # 0
    /\ momentum = VAdd(last.pre.momentum, last.arg)

\* C17: in planet mode collision momentum moves the vehicle as it does in
\* ground mode: for a vehicle at rest, after applyCollisionImpulse(J) with J
\* tangent to the surface and |J| * max(0, 1 - 0.4 dt) / mass >= 0.1, the
\* next update(dt) with accelerate = 0 changes position.  (Stated for
\* dt > 0: no frame of length 0 moves anything.)
C17_PlanetMomentumMoves ==
    [][(/\ surfaceType = "planet"
        /\ last.op = "applyCollisionImpulse"
        /\ last.pre.speed = 0
        /\ last.pre.momentum = VZero
        /\ VDot(last.arg, VNormalize(VSubtract(position, planetCenter))) = 0
        /\ inputAccelerate = 0
        /\ last'.op = "update"
        /\ last'.arg > 0
        /\ Div(Mul(VLength(last.arg),
                   Max(0, FxOne - Mul(collisionPhysics.momentumFriction,
                                      last'.arg))),
               mass) >= MinVelocity)
       => position' # position]_vars

\* The vehicle is at rest and no key is held.
Resting ==
    /\ speed = 0
    /\ momentum = VZero
    /\ inputAccelerate = 0
    /\ inputSteer = 0
    /\ inputHandbrake = FALSE

\* C18: for a vehicle at rest (speed 0, momentum zero) with accelerate = 0,
\* steer = 0 and handbrake off, update(dt) leaves position and orientation
\* unchanged and the vehicle at rest, so they are unchanged after any
\* number of update(dt) calls, in ground and in planet mode.
C18_RestStays ==
    [][(Resting /\ last'.op = "update") =>
          /\ position' = position
          /\ rootNode' = rootNode
          /\ Resting']_vars

\* A frame of positive length has passed over a resting vehicle standing
\* at (3, 4, 0), and it is still there.
C18_Witness ==
    /\ last.op = "update"
    /\ last.arg > 0
    /\ Resting
    /\ last.pre.speed = 0
    /\ last.pre.momentum = VZero
    /\ position \in SetPositions
    /\ position = last.pre.position
    /\ rootNode = last.pre.rootNode

\* C19: in planet mode every update(dt) corrects the radius: whatever
\* position the vehicle holds before the call (one written by setPosition
\* off the sphere, say, with the vehicle at rest), after update(dt) the
\* distance from position to planetCenter is within 1e-3 of
\* planetRadius + heightOffset.
C19_UpdateCorrectsRadius ==
    (surfaceType = "planet" /\ last.op = "update") =>
        Abs(VDistance(position, planetCenter) - (planetRadius + heightOffset))
            <= RadiusTolerance

\* The drift of the norm allowed: rounding of the compositions.
NormTolerance == Dec(2, 100000)

\* C20: the orientation quaternion has norm 1 (to rounding) in every state
\* reachable by any sequence of update calls, on the ground and on a planet,
\* from a unit initial orientation.
C20_UnitOrientation ==
    Abs(QLength(rootNode.rotationQuaternion) - FxOne) <= NormTolerance

\* Several frames have steered the vehicle away from its initial
\* orientation.
C20_Witness ==
    /\ last.op = "update"
    /\ steps >= 3
    /\ steerAngle # 0
    /\ rootNode.rotationQuaternion # last.pre.rootNode.rotationQuaternion
    /\ rootNode.rotationQuaternion \notin MeshRotations \cup {QIdentity}

\* C21: in planet mode, in the state after create() and after every
\* update(dt), the local up axis of the orientation, (0,1,0) rotated by it,
\* points along the surface normal normalize(position - planetCenter) at the
\* vehicle's position (to 1e-3 in each component).
C21_UpAlongNormal ==
    (/\ surfaceType = "planet"
     /\ ~existingMesh
     /\ last.op \in {"create", "update"}) =>
        LET up == upOf(rootNode.rotationQuaternion)
            normal == VNormalize(VSubtract(position, planetCenter))
        IN  \A c \in {"x", "y", "z"} : Abs(up[c] - normal[c]) <= Dec(1, 1000)

\* C22: momentum is independent of the driving controls.  Every operation
\* gives a new momentum that is a function of the old momentum and of the
\* operation's own argument (dt, impulse, momentum) alone, and setInput
\* leaves it as it is; so two runs with the same dt values and the same
\* applyCollisionImpulse / setMomentum calls have equal momentum after every
\* update, whatever their setInput values.
C22_MomentumIgnoresInput ==
    [][/\ last'.op = "update" =>
              momentum' = applyMomentumFriction(DefaultCollisionConfig,
                                                momentum, last'.arg)
       /\ last'.op = "setInput" => momentum' = momentum
       /\ last'.op = "applyCollisionImpulse" =>
              momentum' = VAdd(momentum, last'.arg)
       /\ last'.op = "setMomentum" => momentum' = last'.arg
       /\ last'.op \in {"stopMovement", "setPosition", "setVelocity"} =>
              momentum' = momentum]_vars

\* A frame has decayed a momentum while the vehicle was driven with a key
\* held.
C22_Witness ==
    /\ last.op = "update"
    /\ last.arg > 0
    /\ last.pre.momentum # VZero
    /\ momentum # last.pre.momentum
    /\ momentum # VZero
    /\ inputAccelerate # 0
    /\ speed # 0

\* C23: velocity is recomputed by every update(dt): afterwards it is
\* forward * speed + momentum / mass, with the speed of this frame, the
\* forward direction before the steering of this frame and the decayed
\* momentum, when that vector's length is >= 0.1, and the zero vector
\* otherwise; a vector stored by setVelocity does not survive the update.
C23_VelocityDerived ==
    last.op = "update" =>
        LET forward == forwardOf(last.pre.rootNode.rotationQuaternion)
            derived == VAdd(VScale(forward, speed),
                            momentumToVelocity(momentum, mass))
        IN  /\ VLength(derived) >= MinVelocity => velocity = derived
            /\ VLength(derived) < MinVelocity => velocity = VZero

\* A frame has replaced a velocity that setVelocity had stored.
C23_Witness ==
    /\ last.op = "update"
    /\ last.pre.velocity \in SetVelocities
    /\ velocity # last.pre.velocity
    /\ velocity # VZero
    /\ rootNode.rotationQuaternion # last.pre.rootNode.rotationQuaternion

\* C24: once create() has completed, surfaceType, groundHeight,
\* planetCenter, planetRadius, heightOffset, mass, maxSpeed, acceleration,
\* friction and maxSteerAngle are left unchanged by every later operation.
C24_ParametersFixed ==
    [][UNCHANGED <<surfaceType, groundHeight, planetCenter, planetRadius,
                   heightOffset, mass, maxSpeed, acceleration, friction,
                   maxSteerAngle>>]_vars

\* Two operations have been called on a planet vehicle, the last one a
\* setPosition off the sphere, and the parameters are those of create().
C24_Witness ==
    /\ steps >= 2
    /\ last.op = "setPosition"
    /\ surfaceType = "planet"
    /\ VDistance(position, planetCenter) # planetRadius + heightOffset
    /\ planetRadius = 10 * FxOne
    /\ heightOffset = ConfigHeightOffset
    /\ mass = ConfigMass
    /\ maxSpeed = ConfigMaxSpeed

\* C27: after update(dt), steerAngle is 0 when |speed| < 0.5 and
\* steer * maxSteerAngle * speed otherwise, with the speed this frame has
\* just computed; so for maxSteerAngle > 0 the sign of steerAngle is
\* sign(steer) * sign(speed), and steering reverses in reverse gear.
C27_SteerAngle ==
    last.op = "update" =>
        /\ Abs(speed) < Dec(5, 10) => steerAngle = 0
        /\ Abs(speed) >= Dec(5, 10) =>
               /\ steerAngle = Mul(Mul(inputSteer, maxSteerAngle), speed)
               /\ maxSteerAngle > 0 =>
                      Sgn(steerAngle) = Sgn(inputSteer) * Sgn(speed)

\* A frame has taken the vehicle from rest into reverse with the wheel
\* turned: the angle is that of the new speed, with the sign reversed.
C27_Witness ==
    /\ last.op = "update"
    /\ Abs(last.pre.speed) < Dec(5, 10)
    /\ speed <= -Dec(5, 10)
    /\ inputSteer < 0
    /\ steerAngle > 0

\* C28: with the handbrake off, update(dt) computes the new speed as
\* clamp(speed + accelerate * acceleration * dt, -maxSpeed * 0.5, maxSpeed)
\* * friction^dt, the clamp before the friction factor; so for
\* 0 < friction <= 1 and dt >= 0 the speed after such an update lies in
\* [-maxSpeed * 0.5 * friction^dt, maxSpeed * friction^dt].
C28_DrivingSpeed ==
    (last.op = "update" /\ ~inputHandbrake) =>
        LET dt == last.arg
            accelerated == last.pre.speed
                           + Mul(Mul(inputAccelerate, acceleration), dt)
            low == -Mul(maxSpeed, Dec(5, 10))
            clamped == IF accelerated < low THEN low
                       ELSE IF accelerated > maxSpeed THEN maxSpeed
                       ELSE accelerated
            factor == Pow(friction, dt)
        IN  /\ speed = Mul(clamped, factor)
            /\ (0 < friction /\ friction <= FxOne /\ dt >= 0) =>
                   /\ Mul(low, factor) <= speed
                   /\ speed <= Mul(maxSpeed, factor)
                   /\ factor <= FxOne
            /\ dt = 0 => speed = clamped

\* A frame has accelerated beyond maxSpeed: the speed was clamped and then
\* slowed by the friction factor, and ends below maxSpeed.
C28_Witness ==
    /\ last.op = "update"
    /\ ~inputHandbrake
    /\ last.arg > 0
    /\ last.pre.speed + Mul(Mul(inputAccelerate, acceleration), last.arg)
           > maxSpeed
    /\ speed = Mul(maxSpeed, Pow(friction, last.arg))
    /\ speed < maxSpeed

\* C29: while the handbrake is engaged the accelerate input has no effect:
\* the speed after update(dt) is a function of the speed before and of dt
\* alone (0 when 30 dt >= |speed|, else |speed| reduced by 30 dt), so two
\* updates from the same state with different accelerate values give the
\* same speed; neither the clamp to [-maxSpeed * 0.5, maxSpeed] nor the
\* factor friction^dt is applied on that frame.
C29_HandbrakeOnly ==
    (last.op = "update" /\ inputHandbrake) =>
        LET old == last.pre.speed
            braking == Mul(30 * FxOne, last.arg)
        IN  /\ Abs(old) <= braking => speed = 0
            /\ old > braking => speed = old - braking
            /\ old < -braking => speed = old + braking

\* A handbrake frame with the accelerator held has slowed a vehicle that was
\* faster than maxSpeed by exactly 30 dt, and it is still faster than
\* maxSpeed.
C29_Witness ==
    /\ last.op = "update"
    /\ inputHandbrake
    /\ inputAccelerate # 0
    /\ last.arg > 0
    /\ last.pre.speed > maxSpeed
    /\ speed > maxSpeed
    /\ speed = last.pre.speed - Mul(30 * FxOne, last.arg)

\* The velocity update(dt) has derived in the frame just made.
DerivedVelocity ==
    VAdd(VScale(forwardOf(last.pre.rootNode.rotationQuaternion), speed),
         momentumToVelocity(momentum, mass))

\* C30: on either surface, an update(dt) in which
\* |forward * speed + momentum / mass| < 0.1 (driving and momentum velocity
\* may cancel) sets velocity to the zero vector and leaves position and
\* orientation unchanged: no steering rotation, and on a planet no radius
\* correction and no alignment; momentum is still decayed and speed and
\* steerAngle are still updated on that frame.
C30_EarlyOut ==
    (last.op = "update" /\ VLength(DerivedVelocity) < MinVelocity) =>
        /\ velocity = VZero
        /\ position = last.pre.position
        /\ rootNode = last.pre.rootNode
        /\ momentum = applyMomentumFriction(DefaultCollisionConfig,
                                            last.pre.momentum, last.arg)
        /\ speed = (IF inputHandbrake
                    THEN handbrakeSpeed(last.pre.speed, last.arg)
                    ELSE drivingSpeed(last.pre.speed, inputAccelerate,
                                      last.arg))
        /\ steerAngle = (IF Abs(speed) < Dec(5, 10) THEN 0
                         ELSE Mul(Mul(inputSteer, maxSteerAngle), speed))

\* A frame in which the driving velocity and the momentum velocity cancel,
\* on a planet, with the wheel turned: speed, steerAngle and momentum are
\* new, velocity is zero and the vehicle has not moved or turned.
C30_Witness ==
    /\ last.op = "update"
    /\ surfaceType = "planet"
    /\ VLength(DerivedVelocity) < MinVelocity
    /\ speed >= Dec(5, 10)
    /\ steerAngle # 0
    /\ momentum # VZero
    /\ momentum # last.pre.momentum
    /\ velocity = VZero
    /\ position = last.pre.position
    /\ rootNode = last.pre.rootNode

(***************************************************************************)
(* Properties: InputManager                                                *)
(***************************************************************************)
\* C25: after any sequence of key events getInput() returns accelerate = -1
\* if KeyS or ArrowDown is held, else 1 if KeyW or ArrowUp is held, else 0;
\* steer = -1 if KeyD or ArrowRight is held, else 1 if KeyA or ArrowLeft is
\* held, else 0; handbrake = true exactly when Space is held; with no key
\* held it returns (0, 0, false); and it does not change the key state.
C25_KeyMapping ==
    last.op = "getInput" =>
        LET held(code) == last.arg[toLowerCase(code)]
        IN  /\ last.result.accelerate =
                   (IF held("KeyS") \/ held("ArrowDown") THEN -FxOne
                    ELSE IF held("KeyW") \/ held("ArrowUp") THEN FxOne
                    ELSE 0)
            /\ last.result.steer =
                   (IF held("KeyD") \/ held("ArrowRight") THEN -FxOne
                    ELSE IF held("KeyA") \/ held("ArrowLeft") THEN FxOne
                    ELSE 0)
            /\ last.result.handbrake = held("Space")
            /\ last.arg = NoKeys =>
                   last.result = [accelerate |-> 0, steer |-> 0,
                                  handbrake |-> FALSE]
            /\ keys = last.arg

\* getInput has been called with forward and reverse, left and right all
\* held: reverse and right win.
C25_Witness ==
    /\ last.op = "getInput"
    /\ keys["arrowup"] /\ keys["keys"]
    /\ keys["keya"] /\ keys["arrowright"]
    /\ last.result.accelerate = -FxOne
    /\ last.result.steer = -FxOne

\* C26, as the claim states it: a key code is held exactly when the most
\* recent event for that code was a keydown whose target was not an INPUT,
\* TEXTAREA or contentEditable element.  (Right after an event for a code,
\* that event is the most recent one for the code.)
C26_HeldIffLastEventAcceptedKeydown ==
    [][last'.op \in {"keydown", "keyup"} =>
          keys'[toLowerCase(last'.arg.code)]
              = (last'.op = "keydown" /\ ~typing(last'.arg.target))]_vars

\* C26, amended: a keydown whose target is an INPUT, TEXTAREA or
\* contentEditable element changes nothing (a key held before it stays
\* held); any other keydown makes its code held; a keyup releases its code
\* whatever its target; no event touches another code; and when every code
\* has been released getInput() returns (0, 0, false).
C26_KeyEvents ==
    [][/\ last'.op = "keydown" =>
              keys' = IF typing(last'.arg.target)
                      THEN keys
                      ELSE [keys EXCEPT ![toLowerCase(last'.arg.code)] = TRUE]
       /\ last'.op = "keyup" =>
              keys' = [keys EXCEPT ![toLowerCase(last'.arg.code)] = FALSE]
       /\ (last'.op = "keyup" /\ \A c \in DOMAIN keys' : ~keys'[c]) =>
              getInput(keys') = [accelerate |-> 0, steer |-> 0,
                                 handbrake |-> FALSE]]_vars

\* A key is held although the last event for it was a keydown in an input
\* field.
C26_Witness ==
    /\ last.op = "keydown"
    /\ last.arg.target.tagName = "INPUT"
    /\ keys[toLowerCase(last.arg.code)]


(***************************************************************************)
(* Properties: frames on the ground                                        *)
(***************************************************************************)
\* C31: in ground mode, an update(dt) whose combined velocity
\* forward * speed + momentum / mass has magnitude >= 0.1 moves position by
\* velocity * dt in x and z, and multiplies a rotation of steerAngle * dt
\* about the world up axis onto the current orientation from the left; with
\* steer = 0 the orientation is unchanged.
C31_GroundFrame ==
    (/\ last.op = "update"
     /\ surfaceType = "ground"
     /\ VLength(DerivedVelocity) >= MinVelocity) =>
        LET dt == last.arg
            before == last.pre.rootNode.rotationQuaternion
            steering == QRotationAxis(V3(0, FxOne, 0), Mul(steerAngle, dt))
        IN  /\ velocity = DerivedVelocity
            /\ position.x = last.pre.position.x + Mul(velocity.x, dt)
            /\ position.z = last.pre.position.z + Mul(velocity.z, dt)
            /\ rootNode.rotationQuaternion = QMultiply(steering, before)
            /\ inputSteer = 0 => rootNode.rotationQuaternion = before

\* A frame has moved and turned a vehicle whose orientation is tilted: the
\* product in the other order would have given another orientation.
C31_Witness ==
    /\ last.op = "update"
    /\ surfaceType = "ground"
    /\ VLength(DerivedVelocity) >= MinVelocity
    /\ position.x # last.pre.position.x
    /\ position.z # last.pre.position.z
    /\ steerAngle # 0
    /\ momentum # VZero
    /\ LET before == last.pre.rootNode.rotationQuaternion
           steering == QRotationAxis(V3(0, FxOne, 0),
                                     Mul(steerAngle, last.arg))
       IN  /\ rootNode.rotationQuaternion # before
           /\ QMultiply(steering, before) # QMultiply(before, steering)


\* The frame being made follows an impulse given to a vehicle that had no
\* momentum: the momentum is the impulse, the speed is 0.
AfterImpulse ==
    /\ last.op = "applyCollisionImpulse"
    /\ last.pre.momentum = VZero
    /\ last'.op = "update"

\* The speed the frame being made computes from the speed 0 the impulse left.
SettledSpeed ==
    IF inputHandbrake THEN 0
    ELSE LET dt == last'.arg
             accelerated == Mul(Mul(inputAccelerate, acceleration), dt)
             clamped == Max(-Mul(maxSpeed, Dec(5, 10)),
                            Min(maxSpeed, accelerated))
         IN  Mul(clamped, Pow(friction, dt))

\* The impulse scaled by max(0, 1 - momentumFriction * dt).
DecayedImpulse ==
    VScale(last.arg,
           Max(0, FxOne - Mul(collisionPhysics.momentumFriction, last'.arg)))

\* C32 as stated: an impulse J given between frames to a vehicle with zero
\* momentum contributes J * max(0, 1 - momentumFriction * dt) / mass to the
\* next frame's velocity, for every J, and the driving velocity of that
\* frame uses the speed updated in the same frame.
C32_ImpulseContribution ==
    [][AfterImpulse =>
         /\ speed' = SettledSpeed
         /\ velocity' =
                VAdd(VScale(forwardOf(rootNode.rotationQuaternion), speed'),
                     momentumToVelocity(DecayedImpulse, mass))]_vars

\* C32: within one update(dt) speed and steerAngle are updated first, then
\* momentum is decayed, then the velocity is derived from the new speed and
\* the decayed momentum.  An impulse J given between frames to a vehicle
\* with zero momentum contributes J * max(0, 1 - momentumFriction * dt) /
\* mass to the next frame's derived velocity when that decayed momentum has
\* magnitude >= momentumThreshold, and nothing when it is below; the
\* velocity stored is the derived one when its magnitude is >= 0.1, and the
\* zero vector otherwise.  For dt > 0 the contribution is not J / mass.
C32_FrameOrder ==
    [][AfterImpulse =>
         LET kept == IF VLength(DecayedImpulse)
                          < collisionPhysics.momentumThreshold
                     THEN VZero
                     ELSE DecayedImpulse
             contribution == momentumToVelocity(kept, mass)
             derived ==
                 VAdd(VScale(forwardOf(rootNode.rotationQuaternion), speed'),
                      contribution)
         IN  /\ speed' = SettledSpeed
             /\ momentum' = kept
             /\ velocity' = (IF VLength(derived) < MinVelocity
                             THEN VZero
                             ELSE derived)
             /\ (last'.arg > 0 /\ kept # VZero) =>
                    contribution # momentumToVelocity(last.arg, mass)]_vars

\* A frame after the impulse (400, 0, 0) with the accelerator held: the
\* velocity is the new speed along the forward axis plus 0.9 * 400 / 1000
\* along x.
C32_Witness ==
    /\ last.op = "update"
    /\ last.arg = Dec(1, 4)
    /\ last.pre.speed = 0
    /\ last.pre.momentum = V3(400 * FxOne, 0, 0)
    /\ inputAccelerate > 0
    /\ speed > 0
    /\ momentum = V3(360 * FxOne, 0, 0)
    /\ velocity =
           VAdd(VScale(forwardOf(last.pre.rootNode.rotationQuaternion), speed),
                V3(Dec(36, 100), 0, 0))


(***************************************************************************)
(* Properties: conservation laws of calculateDynamicCollision              *)
(***************************************************************************)
\* The total momentum m1 * u1 + m2 * u2 of the two bodies of the call, along
\* the axis c.
TotalMomentum(u1, u2, c) ==
    Mul(calc.body1.mass, u1[c]) + Mul(calc.body2.mass, u2[c])

\* The rounding a product by 1 / m carries, for the two masses of the call.
ConservationTolerance(c) ==
    ((calc.body1.mass + calc.body2.mass) \div FxOne)
        * (Abs(calc.result.impulse[c]) \div FxOne + 2) + 2

\* C33: calculateDynamicCollision conserves total linear momentum: for all
\* masses m1, m2 > 0, all velocities and every normal,
\* m1 * body1NewVelocity + m2 * body2NewVelocity equals m1 * v1 + m2 * v2
\* (to the rounding of 1 / m1 and 1 / m2).
C33_MomentumConserved ==
    (/\ calc.op = "calculateDynamicCollision"
     /\ calc.body1.mass > 0
     /\ calc.body2.mass > 0) =>
        \A c \in {"x", "y", "z"} :
            Abs(TotalMomentum(calc.result.body1NewVelocity,
                              calc.result.body2NewVelocity, c)
                - TotalMomentum(calc.body1.velocity, calc.body2.velocity, c))
                <= ConservationTolerance(c)

\* A light and a heavy body have exchanged an impulse along a normal that
\* is not a unit vector, and both velocities have changed.
C33_Witness ==
    /\ calc.op = "calculateDynamicCollision"
    /\ calc.body1.mass > 0
    /\ calc.body2.mass > calc.body1.mass
    /\ calc.normal = V3(FxOne, FxOne, 0)
    /\ calc.result.impulse # VZero
    /\ calc.result.body1NewVelocity # calc.body1.velocity
    /\ calc.result.body2NewVelocity # calc.body2.velocity


\* The relative velocity u1 - u2 of the two bodies of the call along its
\* normal.
AlongNormal(u1, u2) == VDot(VSubtract(u1, u2), calc.normal)

\* C34: for a unit normal and masses > 0, the relative velocity along the
\* normal after calculateDynamicCollision is -restitution times the relative
\* normal velocity before it, for every input (to rounding); when the bodies
\* are already separating (vn < 0) the impulse is computed by the same
\* formula, with no guard on shouldSeparate.
C34_Restitution ==
    (/\ calc.op = "calculateDynamicCollision"
     /\ calc.normal \in Normals
     /\ calc.body1.mass > 0
     /\ calc.body2.mass > 0) =>
        LET before == AlongNormal(calc.body1.velocity, calc.body2.velocity)
            after == AlongNormal(calc.result.body1NewVelocity,
                                 calc.result.body2NewVelocity)
            j == Div(Mul(-(FxOne + calc.cp.restitution), before),
                     Div(FxOne, calc.body1.mass)
                         + Div(FxOne, calc.body2.mass))
        IN  /\ Abs(after + Mul(calc.cp.restitution, before)) <= 8
            /\ before < 0 =>
                   /\ calc.result.shouldSeparate = FALSE
                   /\ j > 0
                   /\ calc.result.impulse = VScale(calc.normal, j)
                   /\ calc.result.impulse # VZero
                   /\ after > 0

\* Two bodies that were separating along an oblique unit normal have been
\* given an impulse all the same: they now approach each other.
C34_Witness ==
    /\ calc.op = "calculateDynamicCollision"
    /\ calc.normal = V3(0, Dec(6, 10), Dec(8, 10))
    /\ calc.body1.mass # calc.body2.mass
    /\ AlongNormal(calc.body1.velocity, calc.body2.velocity) < 0
    /\ AlongNormal(calc.result.body1NewVelocity,
                   calc.result.body2NewVelocity) > 0
    /\ ~calc.result.shouldSeparate
    /\ calc.result.impulse # VZero


(***************************************************************************)
(* Properties: the vehicle's momentum and scene node                       *)
(***************************************************************************)
\* C35: immediately after every update(dt) the vehicle's momentum is either
\* exactly the zero vector or has magnitude >= momentumThreshold (0.05),
\* whatever setMomentum or applyCollisionImpulse stored before the update;
\* isMomentumNegligible(getMomentum()) is then true only for the zero
\* vector.
C35_MomentumZeroOrAboveThreshold ==
    last.op = "update" =>
        /\ collisionPhysics.momentumThreshold = Dec(5, 100)
        /\ \/ momentum = VZero
           \/ VLength(momentum) >= collisionPhysics.momentumThreshold
        /\ isMomentumNegligible(collisionPhysics, momentum)
               <=> momentum = VZero

\* A frame of positive length has decayed a stored momentum that was at the
\* threshold, not below it, and has zeroed it.
C35_Witness ==
    /\ last.op = "update"
    /\ last.arg > 0
    /\ last.pre.momentum # VZero
    /\ ~isMomentumNegligible(collisionPhysics, last.pre.momentum)
    /\ Mul(collisionPhysics.momentumFriction, last.arg) < FxOne
    /\ momentum = VZero


(***************************************************************************)
(* Properties: coasting to rest                                            *)
(***************************************************************************)
\* C36: a coasting vehicle comes to rest: in ground mode with
\* 0 < friction < 1, zero momentum, accelerate = 0 and handbrake off, under
\* repeated update(dt) with a fixed dt > 0 from any starting speed, |speed|
\* never increases and position changes in only finitely many frames, after
\* which velocity is the zero vector and position and orientation stay
\* fixed.
C36_CoastsToRest ==
    /\ [][(Released /\ last'.op = "update") =>
             Abs(speed') <= Abs(speed)]_vars
    /\ <>[]Released => <>[](/\ velocity = VZero
                            /\ last.op = "update"
                            /\ position = last.pre.position
                            /\ rootNode = last.pre.rootNode)
    /\ [](/\ surfaceType = "ground"
          /\ 0 < friction
          /\ friction < FxOne
          /\ momentum = VZero)

\* A vehicle that was driven in reverse with the wheel turned has glided
\* away from where it was created, has turned, and has come to rest with a
\* speed that is not zero but too small to move it.
C36_Witness ==
    /\ Released
    /\ last.op = "update"
    /\ ~existingMesh
    /\ position # V3(0, groundHeight + heightOffset, 0)
    /\ rootNode.rotationQuaternion # QIdentity
    /\ inputSteer # 0
    /\ speed < 0
    /\ Abs(speed) < MinVelocity
    /\ velocity = VZero
    /\ position = last.pre.position
    /\ rootNode = last.pre.rootNode


(***************************************************************************)
(* Properties: collision impulses                                          *)
(***************************************************************************)
\* C37: collision impulses accumulate additively and commute: from the same
\* state, applyCollisionImpulse(a) followed by applyCollisionImpulse(b)
\* with no update in between yields the momentum and speed of b followed by
\* a, and of a single applyCollisionImpulse(a + b): the momentum before the
\* two calls plus a + b, and speed 0.
C37_ImpulsesCommute ==
    [][(last.op = "applyCollisionImpulse"
          /\ last'.op = "applyCollisionImpulse") =>
         LET before == last.pre.momentum
             a == last.arg
             b == last'.arg
         IN  /\ momentum' = VAdd(before, VAdd(a, b))
             /\ momentum' = VAdd(VAdd(before, b), a)
             /\ speed' = 0
             /\ speed = 0
             /\ position' = last.pre.position
             /\ rootNode' = last.pre.rootNode
             /\ velocity' = last.pre.velocity]_vars

\* A vehicle with a seeded momentum (0, 0, 200) and a speed of 50 has taken
\* the impulses (400, 0, 0) and (50, 0, 0), in one order or the other.
C37_Witness ==
    /\ last.op = "applyCollisionImpulse"
    /\ steps = 4
    /\ last.arg \in {V3(400 * FxOne, 0, 0), V3(50 * FxOne, 0, 0)}
    /\ last.pre.momentum \in {V3(400 * FxOne, 0, 200 * FxOne),
                              V3(50 * FxOne, 0, 200 * FxOne)}
    /\ momentum = V3(450 * FxOne, 0, 200 * FxOne)
    /\ velocity = V3(30 * FxOne, 0, 40 * FxOne)
    /\ speed = 0


\* C38: after create(), the scene node's position equals the vehicle's
\* position after every public operation: every update (moving or
\* early-out), setPosition and applyCollisionImpulse leave
\* rootNode.position equal to getPosition().
C38_NodeAtPosition ==
    rootNode.position = position

\* A frame has moved a vehicle that setPosition had placed, and the scene
\* node has moved with it.
C38_Witness ==
    /\ last.op = "update"
    /\ last.pre.position \in SetPositions
    /\ position # last.pre.position
    /\ rootNode.position # last.pre.rootNode.position
    /\ rootNode.position = position

(***************************************************************************)
(* Properties: model generator page                                        *)
(***************************************************************************)
\* The step is a call of pollStatus() with a request id set: from a timeout,
\* from startPolling() after an accepted submission, or from
\* restoreInFlightRequest().
PollCall ==
    \/ TimerFires /\ page.requestId # ""
    \/ SubmitRespondsWith({"accepted"})
    \/ LoadPage /\ page.request_id # "" /\ page.last_status = "pending"

\* pollCount when that call is made.
CountAtCall == IF page.timers > 0 /\ TimerFires THEN page.pollCount ELSE 0

\* Status requests in flight before the step that are still in flight.
PollsKept == IF LoadPage THEN 0 ELSE page.polls

Polling == page.polls + page.timers > 0

\* C39 as stated: at most MAX_POLLS status requests are sent for a request.
C39_AtMostMaxPollsPerRequest ==
    page.sentBefore + page.runSent <= MAX_POLLS

\* C39: status polling is bounded and terminates.  A pollStatus() call made
\* with a request id set adds one to pollCount (a call with none changes
\* nothing but the error shown and the button); since pollCount was last
\* reset (by an accepted submission or by restoreInFlightRequest() when the
\* page is loaded again) at most MAX_POLLS status requests were sent; the
\* call that takes pollCount above MAX_POLLS sends no request, shows the
\* timeout error, clears the request id and leaves no timeout pending; an
\* IN_QUEUE, IN_PROGRESS or unrecognised status sets the one pending
\* timeout, while COMPLETED, FAILED and a fetch error set none and send no
\* status request; no other step sets a timeout, and at most one is pending
\* at any time; once the user neither clicks nor reloads, polling ends.
C39_PollingBounded ==
    /\ [](/\ page.runSent <= MAX_POLLS
          /\ page.pollCount <= MAX_POLLS + 1
          /\ page.timers <= 1
          /\ (page.timers = 1 <=> page.pollTimer = "pending"))
    /\ [][PollCall =>
             /\ page'.pollCount = CountAtCall + 1
             /\ IF CountAtCall + 1 > MAX_POLLS
                THEN /\ page'.polls = PollsKept
                     /\ page'.runSent = page.runSent
                     /\ page'.error = "Generation timeout"
                     /\ page'.requestId = ""
                     /\ page'.request_id = ""
                     /\ page'.pollTimer = "null"
                     /\ page'.timers = 0
                ELSE /\ page'.polls = PollsKept + 1
                     /\ page'.runSent = CountAtCall + 1
                     /\ page'.requestId = "req"]_vars
    /\ [][(TimerFires /\ page.requestId = "") =>
             /\ page'.pollCount = page.pollCount
             /\ page'.polls = page.polls
             /\ page'.error = "No active request"]_vars
    /\ [][StatusResponds =>
             /\ page'.polls = page.polls - 1
             /\ page'.pollCount = page.pollCount]_vars
    /\ [][StatusRespondsWith({"IN_QUEUE", "IN_PROGRESS", "other"}) =>
             page'.timers = 1 /\ page'.pollTimer = "pending"]_vars
    /\ [][StatusRespondsWith({"COMPLETED", "FAILED", "error"}) =>
             page'.timers <= page.timers]_vars
    /\ [][~StatusResponds => page'.timers <= page.timers]_vars
    /\ <>[][~(ClickGenerate \/ LoadPage)]_vars => <>[]~Polling

\* The call after MAX_POLLS status requests has reported the timeout.
C39_Witness ==
    /\ page.pollCount = MAX_POLLS + 1
    /\ page.runSent = MAX_POLLS
    /\ page.error = "Generation timeout"
    /\ page.requestId = ""
    /\ ~Polling

(***************************************************************************)
(* Properties: VehicleConfigLoader                                         *)
(***************************************************************************)
\* The URL of the call that last is about.
LastKey == cacheKey(last.arg.vehicleId, last.arg.basePath)

====
